---------------------------- MODULE Spec2Model ----------------------------
(***************************************************************************)
(* TraderMindset, server/storage.ts: the two IStorage backends (MemStorage *)
(* and DatabaseStorage) and their analytics queries.                       *)
(*                                                                         *)
(* Representation.                                                         *)
(*  - A date string "YYYY-MM-DD" is the triple <<y, m, d>>; the lexical    *)
(*    order of the zero-padded strings is the lexicographic order of the   *)
(*    triples (DateLE).                                                    *)
(*  - A JavaScript Date is an instant counted in hours since               *)
(*    2024-01-01T00:00Z.  The process time zone has the standard offset    *)
(*    tz in hours east of UTC: UTC itself, a zone at UTC+2 without         *)
(*    daylight saving, and America/New_York (UTC-5), whose clocks go       *)
(*    forward on 2024-03-10 at 02:00.                                      *)
(*  - An optional value (T | undefined) is a set with at most one element. *)
(*  - A list of habits is a function of the habit id: the order of a       *)
(*    returned list is not modelled.                                       *)
(*  - Money amounts returned by getTradingStats are in hundredths          *)
(*    (Math.round(x * 100) / 100 is kept as the integer Math.round(x*100)).*)
(***************************************************************************)
EXTENDS Integers, Sequences, FiniteSets, TLC

VARIABLES
    backend,              \* "mem" (MemStorage) or "db" (DatabaseStorage)
    tz,                   \* time zone of the process, hours east of UTC
    habits,               \* habit id -> [isActive, name]
    currentHabitId,       \* next habit id (MemStorage counter / serial column)
    memCompletions,       \* MemStorage.habitCompletions: key -> record
    dbCompletions,        \* habit_completions table: set of rows
    currentCompletionId,  \* next completion id
    tradeReviews,         \* trade id -> trade review
    currentTradeId,       \* next trade id
    goals,                \* goal id -> goal
    currentGoalId,        \* next goal id
    emotionalCheckIns,    \* date -> emotional check-in
    currentCheckInId,     \* next check-in id
    journalEntries,       \* date -> journal entry
    currentJournalId,     \* next journal entry id
    riskMetrics,          \* date -> risk metrics
    currentRiskId,        \* next risk metrics id
    calls,                \* the calls suspended at an await
    observed,             \* a result kept by the caller, to compare with later
    result                \* the value returned by the last call

goalVars == <<goals, currentGoalId>>
dailyVars == <<emotionalCheckIns, currentCheckInId, journalEntries,
               currentJournalId, riskMetrics, currentRiskId>>

vars == <<backend, tz, habits, currentHabitId, memCompletions, dbCompletions,
          currentCompletionId, tradeReviews, currentTradeId, goalVars,
          dailyVars, calls, observed, result>>

---------------------------------------------------------------------------
(* Bounds of the model *)

MaxHabits == 2
MaxCompletions == 2
MaxTrades == 3

Procs == {1, 2}
TzOffsets == {-5, 0, 2}
Dates == {<<2024, 2, 29>>, <<2024, 3, 1>>, <<2024, 3, 2>>}
UpsertHabitIds == {1, 2}
HabitIdInputs == {2, 3, 4}
WeekRanges == {<<<<2024, 2, 29>>, <<2024, 3, 2>>>>,
               <<<<2024, 3, 1>>, <<2024, 3, 1>>>>,
               <<<<2024, 3, 2>>, <<2024, 3, 1>>>>,
               <<<<2024, 3, 9>>, <<2024, 3, 11>>>>}
Months == {<<2024, 2>>, <<2024, 3>>}

---------------------------------------------------------------------------
(* Calendar: what the code uses of JavaScript's Date *)

EpochYear == 2024

IsLeapYear(y) == (y % 4 = 0 /\ y % 100 # 0) \/ y % 400 = 0

DaysInMonth(y, m) ==
    IF m = 2 THEN (IF IsLeapYear(y) THEN 29 ELSE 28)
    ELSE IF m \in {4, 6, 9, 11} THEN 30 ELSE 31

DaysInYear(y) == IF IsLeapYear(y) THEN 366 ELSE 365

RECURSIVE DaysBeforeYear(_)
DaysBeforeYear(y) ==
    IF y <= EpochYear THEN 0 ELSE DaysInYear(y - 1) + DaysBeforeYear(y - 1)

RECURSIVE DaysBeforeMonth(_, _)
DaysBeforeMonth(y, m) ==
    IF m <= 1 THEN 0 ELSE DaysInMonth(y, m - 1) + DaysBeforeMonth(y, m - 1)

\* Day number of the date <<y, m, d>>; d may lie outside the month (day 0 is
\* the last day of the month before), as in new Date(y, m, 0).
DayNumber(date) ==
    DaysBeforeYear(date[1]) + DaysBeforeMonth(date[1], date[2]) + date[3] - 1

RECURSIVE DateFrom(_, _, _)
DateFrom(y, m, n) ==
    IF n >= DaysInMonth(y, m)
    THEN (IF m = 12 THEN DateFrom(y + 1, 1, n - DaysInMonth(y, m))
                    ELSE DateFrom(y, m + 1, n - DaysInMonth(y, m)))
    ELSE <<y, m, n + 1>>

\* The date whose day number is n (n >= 0).
DateOfDay(n) == DateFrom(EpochYear, 1, n)

\* new Date("YYYY-MM-DD"): midnight UTC of that date.
ParseDate(date) == 24 * DayNumber(date)

\* The instant at which daylight saving time starts in America/New_York:
\* 2024-03-10 02:00 EST = 07:00Z.
DstStart == 24 * DayNumber(<<2024, 3, 10>>) + 7
ObservesDst == tz = -5

\* The offset of local time from UTC at an instant, and at a local
\* wall-clock time (a time inside the skipped hour counts as standard time,
\* which moves it forward as Date does).
UtcOffset(instant) ==
    IF ObservesDst /\ instant >= DstStart THEN tz + 1 ELSE tz
LocalOffset(local) ==
    IF ObservesDst /\ local >= DstStart + tz + 1 THEN tz + 1 ELSE tz

ToLocal(instant) == instant + UtcOffset(instant)
FromLocal(local) == local - LocalOffset(local)

\* new Date(year, monthIndex, day): midnight of that date in local time.
\* monthIndex is 0-based and may be 12 (January of the next year).
LocalDate(year, monthIndex, day) ==
    LET y == IF monthIndex >= 12 THEN year + 1 ELSE year
        m == IF monthIndex >= 12 THEN monthIndex - 11 ELSE monthIndex + 1
    IN  FromLocal(24 * DayNumber(<<y, m, day>>))

\* d.toISOString().split('T')[0]: the UTC date of the instant.
ToISODate(instant) == DateOfDay(instant \div 24)

\* <<d.getFullYear(), d.getMonth() + 1, d.getDate()>>: the local date.
LocalYMD(instant) == DateOfDay(ToLocal(instant) \div 24)

GetFullYear(instant) == LocalYMD(instant)[1]
GetMonth(instant) == LocalYMD(instant)[2] - 1
GetDate(instant) == LocalYMD(instant)[3]

\* d.setDate(d.getDate() + n): n days later, at the same local time of day.
AddDays(instant, n) == FromLocal(ToLocal(instant) + 24 * n)

\* a <= b on date strings.
DateLE(a, b) ==
    \/ a[1] < b[1]
    \/ a[1] = b[1] /\ a[2] < b[2]
    \/ a[1] = b[1] /\ a[2] = b[2] /\ a[3] <= b[3]

\* Math.round(n / d) for d > 0: the nearest integer, halves towards +infinity.
RoundDiv(n, d) == (2 * n + d) \div (2 * d)

---------------------------------------------------------------------------
(* The store *)

NumDefaultHabits == 4
NumDefaultGoals == 3

StreakCap == 365

MapValues(m) == {m[k] : k \in DOMAIN m}

\* const [row] = await db.select()...: the first row, or undefined.  The
\* queries that use it match at most one row unless concurrent upserts have
\* duplicated a key, and then only whether a row exists is used.
FirstRow(rows) == IF rows = {} THEN {} ELSE {CHOOSE r \in rows : TRUE}

\* const [row] = await db.update()...returning(): the rows come in no
\* specified order, so any of them may be the first.
FirstRows(rows) == IF rows = {} THEN {{}} ELSE {{r} : r \in rows}

\* `${habitId}-${date}`
CompletionKey(habitId, date) == <<habitId, date>>

Init ==
    /\ backend \in {"mem", "db"}
    /\ tz \in TzOffsets
    /\ habits = IF backend = "mem"
                THEN [id \in 1..NumDefaultHabits |->
                        [isActive |-> TRUE, name |-> "default"]]
                ELSE <<>>
    /\ currentHabitId = IF backend = "mem" THEN NumDefaultHabits + 1 ELSE 1
    /\ memCompletions = <<>>
    /\ dbCompletions = {}
    /\ currentCompletionId = 1
    /\ tradeReviews = <<>>
    /\ currentTradeId = 1
    /\ goals = IF backend = "mem"
               THEN [id \in 1..NumDefaultGoals |->
                       [isActive |-> TRUE, title |-> "default"]]
               ELSE <<>>
    /\ currentGoalId = IF backend = "mem" THEN NumDefaultGoals + 1 ELSE 1
    /\ emotionalCheckIns = <<>>
    /\ currentCheckInId = 1
    /\ journalEntries = <<>>
    /\ currentJournalId = 1
    /\ riskMetrics = <<>>
    /\ currentRiskId = 1
    /\ calls = [p \in Procs |-> [pc |-> "idle"]]
    /\ observed = {}
    /\ result = [op |-> "none"]

---------------------------------------------------------------------------
(* Habits *)

\* A faulty variant: the isActive filter is left out.
MemGetHabits_NoFilter == DOMAIN habits

MemGetHabits == {id \in DOMAIN habits : habits[id].isActive}

DbGetHabits == {id \in DOMAIN habits : habits[id].isActive = TRUE}

ActiveHabits == IF backend = "mem" THEN MemGetHabits ELSE DbGetHabits

\* getHabit(id): the habit, or undefined.
GetHabitValue(id) == IF id \in DOMAIN habits THEN {habits[id]} ELSE {}

\* deleteHabit(id): the habit table afterwards.
DeleteHabitTable(id) ==
    IF id \in DOMAIN habits
    THEN [habits EXCEPT ![id] = [@ EXCEPT !.isActive = FALSE]]
    ELSE habits

---------------------------------------------------------------------------
(* Habit completions *)

\* A faulty variant: the records of every habit are returned.
MemGetHabitCompletions_AnyHabit(habitId, startDate, endDate) ==
    {c \in MapValues(memCompletions) :
        /\ \A s \in startDate : DateLE(s, c.date)
        /\ \A e \in endDate : DateLE(c.date, e)}

\* MemStorage.getHabitCompletions(habitId, startDate?, endDate?)
MemGetHabitCompletions(habitId, startDate, endDate) ==
    {c \in MapValues(memCompletions) :
        /\ c.habitId = habitId
        /\ \A s \in startDate : DateLE(s, c.date)
        /\ \A e \in endDate : DateLE(c.date, e)}

\* MemStorage.getHabitCompletion(habitId, date)
MemGetHabitCompletion(habitId, date) ==
    LET key == CompletionKey(habitId, date)
    IN  IF key \in DOMAIN memCompletions THEN {memCompletions[key]} ELSE {}

\* A faulty variant: an existing record keeps its flag.
MemUpsertCompletion_KeepExisting(completion) ==
    LET key == CompletionKey(completion.habitId, completion.date)
    IN  IF key \in DOMAIN memCompletions
        THEN <<memCompletions, memCompletions[key]>>
        ELSE LET newCompletion == [id |-> currentCompletionId,
                                   habitId |-> completion.habitId,
                                   date |-> completion.date,
                                   completed |-> completion.completed]
             IN  <<memCompletions @@ (key :> newCompletion), newCompletion>>

\* MemStorage.createOrUpdateHabitCompletion: <<map afterwards, record returned>>
MemUpsertCompletion(completion) ==
    LET key == CompletionKey(completion.habitId, completion.date)
    IN  IF key \in DOMAIN memCompletions
        THEN LET updated == [memCompletions[key] EXCEPT
                                !.completed = completion.completed]
             IN  <<[memCompletions EXCEPT ![key] = updated], updated>>
        ELSE LET newCompletion == [id |-> currentCompletionId,
                                   habitId |-> completion.habitId,
                                   date |-> completion.date,
                                   completed |-> completion.completed]
             IN  <<memCompletions @@ (key :> newCompletion), newCompletion>>

\* A faulty variant: the habitId condition is left out of the range query.
DbGetHabitCompletions_AllHabits(habitId, startDate, endDate) ==
    {c \in dbCompletions :
        (startDate # {} /\ endDate # {}) =>
              /\ \A s \in startDate : DateLE(s, c.date)
              /\ \A e \in endDate : DateLE(c.date, e)}

\* DatabaseStorage.getHabitCompletions(habitId, startDate?, endDate?): the
\* range is applied only when both ends are given.
DbGetHabitCompletions(habitId, startDate, endDate) ==
    {c \in dbCompletions :
        /\ c.habitId = habitId
        /\ (startDate # {} /\ endDate # {}) =>
              /\ \A s \in startDate : DateLE(s, c.date)
              /\ \A e \in endDate : DateLE(c.date, e)}

\* A faulty variant: the date condition is left out.
DbGetHabitCompletion_AnyDate(habitId, date) ==
    FirstRow({c \in dbCompletions : c.habitId = habitId})

\* DatabaseStorage.getHabitCompletion(habitId, date)
DbGetHabitCompletion(habitId, date) ==
    FirstRow({c \in dbCompletions : c.habitId = habitId /\ c.date = date})

\* The write half of DatabaseStorage.createOrUpdateHabitCompletion, given what
\* the read half found: <<table afterwards, rows of returning()>>
DbWriteCompletion(completion, existing) ==
    IF existing # {}
    THEN LET hit == {c \in dbCompletions :
                        c.habitId = completion.habitId /\ c.date = completion.date}
             updated == {[c EXCEPT !.completed = completion.completed] : c \in hit}
         IN  <<(dbCompletions \ hit) \cup updated, updated>>
    ELSE LET created == [id |-> currentCompletionId,
                         habitId |-> completion.habitId,
                         date |-> completion.date,
                         completed |-> completion.completed]
         IN  <<dbCompletions \cup {created}, {created}>>

\* The completion records the backend in use holds.
Completions ==
    IF backend = "mem" THEN MapValues(memCompletions) ELSE dbCompletions

GetHabitCompletionValue(habitId, date) ==
    IF backend = "mem" THEN MemGetHabitCompletion(habitId, date)
                       ELSE DbGetHabitCompletion(habitId, date)

\* completion && completion.completed  /  completion?.completed
IsCompleted(completion) == \E c \in completion : c.completed

---------------------------------------------------------------------------
(* getHabitsWithStats *)

\* MemStorage: the streak loop, entered at iteration i with checkDate.
RECURSIVE MemStreakLoop(_, _, _)
MemStreakLoop(completions, checkDate, i) ==
    IF i >= StreakCap THEN 0
    ELSE LET dateStr == ToISODate(checkDate)
             completion == FirstRow({c \in completions : c.date = dateStr})
         IN  IF IsCompleted(completion)
             THEN 1 + MemStreakLoop(completions, AddDays(checkDate, -1), i + 1)
             ELSE 0

MemHabitStats(habitId, date) ==
    LET today == ParseDate(date)
        startOfMonth == LocalDate(GetFullYear(today), GetMonth(today), 1)
        endOfMonth == LocalDate(GetFullYear(today), GetMonth(today) + 1, 0)
        completions == MemGetHabitCompletions(habitId, {}, {})
        monthlyCompletions ==
            {c \in completions :
                /\ DateLE(ToISODate(startOfMonth), c.date)
                /\ DateLE(c.date, ToISODate(endOfMonth))
                /\ c.completed}
        totalDaysThisMonth == GetDate(endOfMonth)
    IN  [currentStreak |-> MemStreakLoop(completions, ParseDate(date), 0),
         completionRate |->
            IF totalDaysThisMonth > 0
            THEN RoundDiv(100 * Cardinality(monthlyCompletions), totalDaysThisMonth)
            ELSE 0,
         completedToday |-> \E c \in completions : c.date = date /\ c.completed,
         monthlyCompletions |-> Cardinality(monthlyCompletions),
         totalDaysThisMonth |-> totalDaysThisMonth]

MemGetHabitsWithStats(date) ==
    [habitId \in MemGetHabits |-> MemHabitStats(habitId, date)]

\* DatabaseStorage: the streak loop; it runs while checkDate >= monthStart.
RECURSIVE DbStreakLoop(_, _, _)
DbStreakLoop(monthlyCompletions, checkDate, monthStart) ==
    IF checkDate < ParseDate(monthStart) THEN 0
    ELSE LET dateStr == ToISODate(checkDate)
             entry == FirstRow({c \in monthlyCompletions : c.date = dateStr})
         IN  IF IsCompleted(entry)
             THEN 1 + DbStreakLoop(monthlyCompletions, AddDays(checkDate, -1),
                                   monthStart)
             ELSE 0

DbHabitStats(habitId, date) ==
    LET today == ParseDate(date)
        currentMonth == GetMonth(today)
        currentYear == GetFullYear(today)
        daysInMonth == GetDate(LocalDate(currentYear, currentMonth + 1, 0))
        todayCompletion == DbGetHabitCompletion(habitId, date)
        monthStart == <<currentYear, currentMonth + 1, 1>>
        monthEnd == <<currentYear, currentMonth + 1, daysInMonth>>
        monthlyCompletions ==
            DbGetHabitCompletions(habitId, {monthStart}, {monthEnd})
        completedDays == Cardinality({c \in monthlyCompletions : c.completed})
    IN  [currentStreak |-> DbStreakLoop(monthlyCompletions, today, monthStart),
         completionRate |->
            IF daysInMonth > 0 THEN RoundDiv(100 * completedDays, daysInMonth)
                               ELSE 0,
         completedToday |-> IsCompleted(todayCompletion),
         monthlyCompletions |-> completedDays,
         totalDaysThisMonth |-> daysInMonth]

DbGetHabitsWithStats(date) ==
    [habitId \in DbGetHabits |-> DbHabitStats(habitId, date)]

---------------------------------------------------------------------------
(* getWeeklyProgress *)

\* CompletedHabits counting every record, whatever its completed flag.
CompletedHabits_AnyRecord(hs, dateStr) ==
    Cardinality({h \in hs : GetHabitCompletionValue(h, dateStr) # {}})

\* The number of the habits hs with a completed record on dateStr.
CompletedHabits(hs, dateStr) ==
    Cardinality({h \in hs : IsCompleted(GetHabitCompletionValue(h, dateStr))})

\* MemStorage: the loop over the days, entered with d.
RECURSIVE MemWeeklyLoop(_, _, _)
MemWeeklyLoop(hs, d, end) ==
    IF d > end THEN <<>>
    ELSE LET dateStr == ToISODate(d)
             totalHabits == Cardinality(hs)
             completedHabits == CompletedHabits(hs, dateStr)
             completionRate == IF totalHabits > 0
                               THEN RoundDiv(100 * completedHabits, totalHabits)
                               ELSE 0
         IN  <<[date |-> dateStr, completionRate |-> completionRate]>>
                \o MemWeeklyLoop(hs, AddDays(d, 1), end)

MemGetWeeklyProgress(startDate, endDate) ==
    MemWeeklyLoop(MemGetHabits, ParseDate(startDate), ParseDate(endDate))

RECURSIVE DbWeeklyLoop(_, _, _)
DbWeeklyLoop(allHabits, d, end) ==
    IF d > end THEN <<>>
    ELSE LET dateStr == ToISODate(d)
             totalCompletions == CompletedHabits(allHabits, dateStr)
             completionRate ==
                IF Cardinality(allHabits) > 0
                THEN RoundDiv(100 * totalCompletions, Cardinality(allHabits))
                ELSE 0
         IN  <<[date |-> dateStr, completionRate |-> completionRate]>>
                \o DbWeeklyLoop(allHabits, AddDays(d, 1), end)

DbGetWeeklyProgress(startDate, endDate) ==
    DbWeeklyLoop(DbGetHabits, ParseDate(startDate), ParseDate(endDate))

---------------------------------------------------------------------------
(* getMonthlyStats *)

\* A faulty variant: totalPossible is not added up over the days.
RECURSIVE MemMonthLoop_PossibleOfOneDay(_, _, _)
MemMonthLoop_PossibleOfOneDay(hs, d, endOfMonth) ==
    IF d > endOfMonth
    THEN [totalCompletions |-> 0, totalPossible |-> 0, perfectDays |-> 0]
    ELSE LET dayCompletions == CompletedHabits(hs, ToISODate(d))
             rest == MemMonthLoop_PossibleOfOneDay(hs, AddDays(d, 1), endOfMonth)
         IN  [totalCompletions |-> dayCompletions + rest.totalCompletions,
              totalPossible |-> Cardinality(hs),
              perfectDays |->
                (IF dayCompletions = Cardinality(hs) /\ Cardinality(hs) > 0
                 THEN 1 ELSE 0) + rest.perfectDays]

\* MemStorage: the per-day loop, entered with d; the totals it adds.
RECURSIVE MemMonthLoop(_, _, _)
MemMonthLoop(hs, d, endOfMonth) ==
    IF d > endOfMonth
    THEN [totalCompletions |-> 0, totalPossible |-> 0, perfectDays |-> 0]
    ELSE LET dayCompletions == CompletedHabits(hs, ToISODate(d))
             rest == MemMonthLoop(hs, AddDays(d, 1), endOfMonth)
         IN  [totalCompletions |-> dayCompletions + rest.totalCompletions,
              totalPossible |-> Cardinality(hs) + rest.totalPossible,
              perfectDays |->
                (IF dayCompletions = Cardinality(hs) /\ Cardinality(hs) > 0
                 THEN 1 ELSE 0) + rest.perfectDays]

\* MemStorage: the best-streak loop over weeklyProgress, entered at entry i.
RECURSIVE MemBestStreakLoop(_, _, _, _)
MemBestStreakLoop(weeklyProgress, i, currentStreak, bestStreak) ==
    IF i > Len(weeklyProgress) THEN bestStreak
    ELSE IF weeklyProgress[i].completionRate = 100
         THEN MemBestStreakLoop(weeklyProgress, i + 1, currentStreak + 1,
                  IF currentStreak + 1 > bestStreak THEN currentStreak + 1
                                                    ELSE bestStreak)
         ELSE MemBestStreakLoop(weeklyProgress, i + 1, 0, bestStreak)

MemGetMonthlyStats(year, month) ==
    LET hs == MemGetHabits
        startOfMonth == LocalDate(year, month - 1, 1)
        endOfMonth == LocalDate(year, month, 0)
        totals == MemMonthLoop(hs, startOfMonth, endOfMonth)
        weeklyProgress == MemGetWeeklyProgress(ToISODate(startOfMonth),
                                               ToISODate(endOfMonth))
    IN  [bestStreak |-> MemBestStreakLoop(weeklyProgress, 1, 0, 0),
         totalHabits |-> Cardinality(hs),
         completionRate |->
            IF totals.totalPossible > 0
            THEN RoundDiv(100 * totals.totalCompletions, totals.totalPossible)
            ELSE 0,
         perfectDays |-> totals.perfectDays]

\* DatabaseStorage: the per-day loop, entered with day.
RECURSIVE DbMonthLoop(_, _, _, _, _)
DbMonthLoop(allHabits, year, month, day, daysInMonth) ==
    IF day > daysInMonth
    THEN [totalCompletions |-> 0, perfectDays |-> 0]
    ELSE LET dayCompletions == CompletedHabits(allHabits, <<year, month, day>>)
             rest == DbMonthLoop(allHabits, year, month, day + 1, daysInMonth)
         IN  [totalCompletions |-> dayCompletions + rest.totalCompletions,
              perfectDays |->
                (IF dayCompletions = Cardinality(allHabits)
                    /\ Cardinality(allHabits) > 0
                 THEN 1 ELSE 0) + rest.perfectDays]

DbGetMonthlyStats(year, month) ==
    LET allHabits == DbGetHabits
        daysInMonth == GetDate(LocalDate(year, month, 0))
        totals == DbMonthLoop(allHabits, year, month, 1, daysInMonth)
        bestStreak == 0
        totalPossible == Cardinality(allHabits) * daysInMonth
    IN  [bestStreak |-> bestStreak,
         totalHabits |-> Cardinality(allHabits),
         completionRate |->
            IF totalPossible > 0
            THEN RoundDiv(100 * totals.totalCompletions, totalPossible)
            ELSE 0,
         perfectDays |-> totals.perfectDays]

---------------------------------------------------------------------------
(* The operations of IStorage on habits and completions, one call at a time *)

habitVars == <<habits, currentHabitId>>

\* No call is running: the last one has handed its value to the caller.
Idle == result.op = "none"

\* The caller takes the value the call returned.
Return ==
    /\ result.op # "none"
    /\ result' = [op |-> "none"]
    /\ UNCHANGED <<backend, tz, observed, goalVars, dailyVars,
                   habits, currentHabitId, memCompletions,
                   dbCompletions, currentCompletionId, tradeReviews,
                   currentTradeId, calls>>
completionVars == <<memCompletions, dbCompletions, currentCompletionId>>
tradeVars == <<tradeReviews, currentTradeId>>

\* MaxHabits bounds the ids createHabit hands out: DatabaseStorage fills its
\* table up to it, MemStorage keeps to the default habits of its constructor.
CreateHabit ==
    /\ Idle
    /\ currentHabitId <= MaxHabits
    /\ habits' = habits @@ (currentHabitId :>
                                [isActive |-> TRUE, name |-> "created"])
    /\ currentHabitId' = currentHabitId + 1
    /\ result' = [op |-> "createHabit", val |-> currentHabitId]
    /\ UNCHANGED <<backend, tz, observed, goalVars, dailyVars,
                   completionVars, tradeVars, calls>>

DeleteHabit(id) ==
    /\ Idle
    /\ habits' = DeleteHabitTable(id)
    /\ result' = [op |-> "deleteHabit", id |-> id, val |-> id \in DOMAIN habits]
    /\ UNCHANGED <<backend, tz, observed, goalVars, dailyVars,
                   currentHabitId, completionVars, tradeVars, calls>>

GetHabit(id) ==
    /\ Idle
    /\ result' = [op |-> "getHabit", id |-> id, val |-> GetHabitValue(id)]
    /\ UNCHANGED <<backend, tz, observed, goalVars, dailyVars,
                   habitVars, completionVars, tradeVars, calls>>

GetHabits ==
    /\ Idle
    /\ result' = [op |-> "getHabits", val |-> ActiveHabits]
    /\ UNCHANGED <<backend, tz, observed, goalVars, dailyVars,
                   habitVars, completionVars, tradeVars, calls>>

\* Whether the upsert of this key would insert (and so draw a fresh id).
WouldInsert(completion) ==
    GetHabitCompletionValue(completion.habitId, completion.date) = {}

CreateOrUpdateHabitCompletion(completion) ==
    /\ Idle
    /\ WouldInsert(completion) => currentCompletionId <= MaxCompletions
    /\ IF backend = "mem"
       THEN /\ memCompletions' = MemUpsertCompletion(completion)[1]
            /\ result' = [op |-> "createOrUpdateHabitCompletion",
                          arg |-> completion,
                          val |-> {MemUpsertCompletion(completion)[2]}]
            /\ UNCHANGED dbCompletions
       ELSE LET existing == DbGetHabitCompletion(completion.habitId,
                                                 completion.date)
                written == DbWriteCompletion(completion, existing)
            IN  /\ dbCompletions' = written[1]
                /\ \E row \in FirstRows(written[2]) :
                      result' = [op |-> "createOrUpdateHabitCompletion",
                                 arg |-> completion, val |-> row]
                /\ UNCHANGED memCompletions
    /\ currentCompletionId' = IF WouldInsert(completion)
                              THEN currentCompletionId + 1
                              ELSE currentCompletionId
    /\ UNCHANGED <<backend, tz, observed, goalVars, dailyVars,
                   habitVars, tradeVars, calls>>

GetHabitCompletion(habitId, date) ==
    /\ Idle
    /\ result' = [op |-> "getHabitCompletion", habitId |-> habitId,
                  date |-> date, val |-> GetHabitCompletionValue(habitId, date)]
    /\ UNCHANGED <<backend, tz, observed, goalVars, dailyVars,
                   habitVars, completionVars, tradeVars, calls>>

GetHabitsWithStats(date) ==
    /\ Idle
    /\ result' = [op |-> "getHabitsWithStats", date |-> date,
                  val |-> IF backend = "mem" THEN MemGetHabitsWithStats(date)
                                             ELSE DbGetHabitsWithStats(date)]
    /\ UNCHANGED <<backend, tz, observed, goalVars, dailyVars,
                   habitVars, completionVars, tradeVars, calls>>

GetWeeklyProgress(startDate, endDate) ==
    /\ Idle
    /\ result' = [op |-> "getWeeklyProgress", startDate |-> startDate,
                  endDate |-> endDate,
                  val |-> IF backend = "mem"
                          THEN MemGetWeeklyProgress(startDate, endDate)
                          ELSE DbGetWeeklyProgress(startDate, endDate)]
    /\ UNCHANGED <<backend, tz, observed, goalVars, dailyVars,
                   habitVars, completionVars, tradeVars, calls>>

GetMonthlyStats(year, month) ==
    /\ Idle
    /\ result' = [op |-> "getMonthlyStats", year |-> year, month |-> month,
                  val |-> IF backend = "mem" THEN MemGetMonthlyStats(year, month)
                                             ELSE DbGetMonthlyStats(year, month)]
    /\ UNCHANGED <<backend, tz, observed, goalVars, dailyVars,
                   habitVars, completionVars, tradeVars, calls>>

\* The upserts callers make: either flag for habit 1, completed = true for
\* the other habits.
CompletionInputs ==
    {c \in [habitId : UpsertHabitIds, date : Dates, completed : BOOLEAN] :
        c.habitId = 1 \/ c.completed}

NextHabits ==
    \/ CreateHabit
    \/ \E id \in HabitIdInputs : DeleteHabit(id)
    \/ \E id \in HabitIdInputs : GetHabit(id)
    \/ GetHabits
    \/ \E completion \in CompletionInputs :
          CreateOrUpdateHabitCompletion(completion)
    \/ \E habitId \in UpsertHabitIds, date \in Dates :
          GetHabitCompletion(habitId, date)
    \/ \E date \in Dates : GetHabitsWithStats(date)
    \/ \E range \in WeekRanges : GetWeeklyProgress(range[1], range[2])
    \/ \E ym \in Months : GetMonthlyStats(ym[1], ym[2])
    \/ Return

SpecHabits == Init /\ [][NextHabits]_vars

---------------------------------------------------------------------------
(* Trade reviews and getTradingStats.                                       *)
(* A pnl string is a tuple of one-character strings, so that parseFloat     *)
(* has something to parse; a JavaScript number that may be NaN is a record  *)
(* (NaN, or Num(x) with x in hundredths).  A list of trades is the set of   *)
(* its rows: the statistics do not depend on the order of the list.         *)

NaN == [nan |-> TRUE]
Num(x) == [nan |-> FALSE, val |-> x]
IsNaN(n) == n.nan
\* a + b, a > 0 and a < 0 of JavaScript numbers
Plus(a, b) == IF a.nan \/ b.nan THEN NaN ELSE Num(a.val + b.val)
Positive(n) == ~n.nan /\ n.val > 0
Negative(n) == ~n.nan /\ n.val < 0
Abs(x) == IF x < 0 THEN -x ELSE x

IsDigit(c) == c \in {"0", "1", "2", "3", "4", "5", "6", "7", "8", "9"}
DigitValue(c) ==
    CASE c = "0" -> 0 [] c = "1" -> 1 [] c = "2" -> 2 [] c = "3" -> 3
      [] c = "4" -> 4 [] c = "5" -> 5 [] c = "6" -> 6 [] c = "7" -> 7
      [] c = "8" -> 8 [] c = "9" -> 9

RECURSIVE LeadingDigits(_)
LeadingDigits(s) ==
    IF s = <<>> \/ ~IsDigit(Head(s)) THEN <<>>
    ELSE <<Head(s)>> \o LeadingDigits(Tail(s))

RECURSIVE DigitsValue(_)
DigitsValue(digits) ==
    IF digits = <<>> THEN 0
    ELSE 10 * DigitsValue(SubSeq(digits, 1, Len(digits) - 1))
         + DigitValue(digits[Len(digits)])

\* The fraction digits in hundredths (the inputs have at most two of them).
FractionValue(digits) ==
    IF digits = <<>> THEN 0
    ELSE IF Len(digits) = 1 THEN 10 * DigitValue(digits[1])
    ELSE 10 * DigitValue(digits[1]) + DigitValue(digits[2])

\* parseFloat(s), in hundredths: an optional sign, digits, an optional
\* fraction; whatever follows is ignored; NaN when there is no digit.
ParseFloat(s) ==
    LET signed == s # <<>> /\ Head(s) \in {"-", "+"}
        body == IF signed THEN Tail(s) ELSE s
        whole == LeadingDigits(body)
        rest == SubSeq(body, Len(whole) + 1, Len(body))
        fraction == IF rest # <<>> /\ Head(rest) = "."
                    THEN LeadingDigits(Tail(rest)) ELSE <<>>
        magnitude == 100 * DigitsValue(whole) + FractionValue(fraction)
    IN  IF whole = <<>> /\ fraction = <<>> THEN NaN
        ELSE IF signed /\ Head(s) = "-" THEN Num(-magnitude)
        ELSE Num(magnitude)

\* if (x) for an optional string: neither undefined/null nor "".
Truthy(optional) == \E s \in optional : Len(s) > 0

\* parseFloat(t.pnl!)
Pnl(trade) == ParseFloat(CHOOSE s \in trade.pnl : TRUE)

RECURSIVE SumPnl(_)
\* trades.reduce((sum, t) => sum + parseFloat(t.pnl!), 0)
SumPnl(trades) ==
    IF trades = {} THEN Num(0)
    ELSE LET t == CHOOSE x \in trades : TRUE
         IN  Plus(SumPnl(trades \ {t}), Pnl(t))

ProfitFactorSentinel == 999

\* a < b of two date strings
DateLT(a, b) == ~DateLE(b, a)

\* The rows of a date range.  getTradingStats always passes both dates.
MemGetTradeReviews(startDate, endDate) ==
    {t \in MapValues(tradeReviews) :
        ~DateLT(t.date, startDate) /\ ~DateLT(endDate, t.date)}

\* A faulty variant: the end date is left out of the range.
DbGetTradeReviews_ExclusiveEnd(startDate, endDate) ==
    {t \in MapValues(tradeReviews) :
        DateLE(startDate, t.date) /\ DateLT(t.date, endDate)}

DbGetTradeReviews(startDate, endDate) ==
    {t \in MapValues(tradeReviews) :
        DateLE(startDate, t.date) /\ DateLE(t.date, endDate)}

\* MemStorage.createTradeReview: pnl: review.pnl || null, ...
MemTradeReview(review, id) ==
    [id |-> id, date |-> review.date,
     pnl |-> IF Truthy(review.pnl) THEN review.pnl ELSE {},
     emotionalState |-> IF Truthy(review.emotionalState)
                        THEN review.emotionalState ELSE {}]

\* DatabaseStorage.createTradeReview: the row as inserted.
DbTradeReview(review, id) ==
    [id |-> id, date |-> review.date, pnl |-> review.pnl,
     emotionalState |-> review.emotionalState]

\* emotionalStates is an object literal {}: a name of Object.prototype is
\* found on it before any trade has been counted.
ObjectPrototypeKeys ==
    {"constructor", "toString", "toLocaleString", "valueOf", "hasOwnProperty",
     "isPrototypeOf", "propertyIsEnumerable", "__proto__"}

\* emotionalStates[label] after the `count` trades tagged with the label:
\* (undefined || 0) + 1 + ... is the number count; for an inherited name the
\* first read yields the inherited function, (f || 0) + 1 is the string
\* String(f) followed by "1", and every further trade appends another "1".
EmotionalStateValue(label, count) ==
    IF label \in ObjectPrototypeKeys
    THEN [stringOf |-> label, ones |-> count]
    ELSE Num(count)

\* emotionalStates[trade.emotionalState] = (... || 0) + 1 for every tagged
\* trade.  Assigning a string to __proto__ sets no property.
EmotionalStates(trades) ==
    LET labels == {l \in UNION {t.emotionalState : t \in trades} :
                      Truthy({l})}
    IN  [l \in labels \ {"__proto__"} |->
            EmotionalStateValue(l,
                Cardinality({t \in trades : t.emotionalState = {l}}))]

EmptyTradingStats ==
    [totalTrades |-> 0, winRate |-> 0, totalPnL |-> Num(0), avgWin |-> 0,
     avgLoss |-> 0, profitFactor |-> 0, emotionalStates |-> <<>>]

\* MemStorage.getTradingStats on the trades of the range
MemTradingStats(trades) ==
    LET totalTrades == Cardinality(trades)
        tradesWithPnL == {t \in trades : Truthy(t.pnl) /\ ~IsNaN(Pnl(t))}
        winningTrades == {t \in tradesWithPnL : Positive(Pnl(t))}
        losingTrades == {t \in tradesWithPnL : Negative(Pnl(t))}
        totalPnL == SumPnl(tradesWithPnL)
        totalWins == SumPnl(winningTrades).val
        totalLosses == Abs(SumPnl(losingTrades).val)
    IN  IF totalTrades = 0 THEN EmptyTradingStats
        ELSE [totalTrades |-> totalTrades,
              winRate |-> IF Cardinality(tradesWithPnL) > 0
                          THEN RoundDiv(100 * Cardinality(winningTrades),
                                        Cardinality(tradesWithPnL))
                          ELSE 0,
              totalPnL |-> totalPnL,
              avgWin |-> IF Cardinality(winningTrades) > 0
                         THEN RoundDiv(totalWins, Cardinality(winningTrades))
                         ELSE 0,
              avgLoss |-> IF Cardinality(losingTrades) > 0
                          THEN RoundDiv(totalLosses, Cardinality(losingTrades))
                          ELSE 0,
              profitFactor |-> IF totalLosses > 0
                               THEN RoundDiv(100 * totalWins, totalLosses)
                               ELSE IF totalWins > 0
                                    THEN 100 * ProfitFactorSentinel
                                    ELSE 0,
              emotionalStates |-> EmotionalStates(trades)]

MemGetTradingStats(startDate, endDate) ==
    MemTradingStats(MemGetTradeReviews(startDate, endDate))

RECURSIVE DbTradeLoop(_, _)
\* trades.forEach(trade => { if (trade.pnl) { ... } })
DbTradeLoop(trades, acc) ==
    IF trades = {} THEN acc
    ELSE LET trade == CHOOSE x \in trades : TRUE
             pnl == Pnl(trade)
             next ==
                 IF ~Truthy(trade.pnl) THEN acc
                 ELSE IF Positive(pnl)
                 THEN [acc EXCEPT !.totalPnL = Plus(@, pnl),
                                  !.wins = @ + 1,
                                  !.totalWins = @ + pnl.val,
                                  !.winCount = @ + 1]
                 ELSE IF Negative(pnl)
                 THEN [acc EXCEPT !.totalPnL = Plus(@, pnl),
                                  !.totalLosses = @ + Abs(pnl.val),
                                  !.lossCount = @ + 1]
                 ELSE [acc EXCEPT !.totalPnL = Plus(@, pnl)]
         IN  DbTradeLoop(trades \ {trade}, next)

\* DatabaseStorage.getTradingStats on the trades of the range
DbTradingStats(trades) ==
    LET totalTrades == Cardinality(trades)
        acc == DbTradeLoop(trades,
                   [wins |-> 0, totalPnL |-> Num(0), totalWins |-> 0,
                    totalLosses |-> 0, winCount |-> 0, lossCount |-> 0])
        \* avgWin / avgLoss = (totalWins * lossCount) / (winCount * totalLosses)
        avgLossPositive == acc.lossCount > 0 /\ acc.totalLosses > 0
    IN  IF totalTrades = 0 THEN EmptyTradingStats
        ELSE [totalTrades |-> totalTrades,
              winRate |-> RoundDiv(100 * acc.wins, totalTrades),
              totalPnL |-> acc.totalPnL,
              avgWin |-> IF acc.winCount > 0
                         THEN RoundDiv(acc.totalWins, acc.winCount) ELSE 0,
              avgLoss |-> IF acc.lossCount > 0
                          THEN RoundDiv(acc.totalLosses, acc.lossCount) ELSE 0,
              profitFactor |-> IF avgLossPositive
                               THEN IF acc.winCount > 0
                                    THEN RoundDiv(100 * acc.totalWins * acc.lossCount,
                                                  acc.winCount * acc.totalLosses)
                                    ELSE 0
                               ELSE 0,
              emotionalStates |-> EmotionalStates(trades)]

DbGetTradingStats(startDate, endDate) ==
    DbTradingStats(DbGetTradeReviews(startDate, endDate))

TradingStats(trades) ==
    IF backend = "mem" THEN MemTradingStats(trades) ELSE DbTradingStats(trades)

\* The trade reviews a caller submits.
TradeInputs ==
    { [date |-> <<2024, 3, 1>>, pnl |-> {<<"1", "0", "0">>},
       emotionalState |-> {"calm"}],
      [date |-> <<2024, 3, 1>>, pnl |-> {<<"-", "5", "0">>},
       emotionalState |-> {"anxious"}],
      [date |-> <<2024, 3, 2>>, pnl |-> {<<"-", "5", "0">>},
       emotionalState |-> {}],
      [date |-> <<2024, 3, 2>>, pnl |-> {<<"1", "2", ".", "5">>},
       emotionalState |-> {"calm"}],
      [date |-> <<2024, 3, 1>>, pnl |-> {}, emotionalState |-> {"calm"}],
      [date |-> <<2024, 3, 1>>, pnl |-> {<<"a", "b", "c">>},
       emotionalState |-> {}],
      [date |-> <<2024, 3, 2>>, pnl |-> {<<"0">>}, emotionalState |-> {""}],
      [date |-> <<2024, 3, 2>>, pnl |-> {}, emotionalState |-> {"constructor"}],
      [date |-> <<2024, 3, 1>>, pnl |-> {<<>>}, emotionalState |-> {}] }

CreateTradeReview(review) ==
    /\ Idle
    /\ currentTradeId <= MaxTrades
    /\ LET tradeReview == IF backend = "mem"
                          THEN MemTradeReview(review, currentTradeId)
                          ELSE DbTradeReview(review, currentTradeId)
       IN  /\ tradeReviews' = tradeReviews @@ (currentTradeId :> tradeReview)
           /\ result' = [op |-> "createTradeReview", val |-> tradeReview]
    /\ currentTradeId' = currentTradeId + 1
    /\ UNCHANGED <<backend, tz, observed, goalVars, dailyVars,
                   habitVars, completionVars, calls>>

GetTradeReviews(startDate, endDate) ==
    /\ Idle
    /\ result' = [op |-> "getTradeReviews", startDate |-> startDate,
                  endDate |-> endDate,
                  val |-> IF backend = "mem"
                          THEN MemGetTradeReviews(startDate, endDate)
                          ELSE DbGetTradeReviews(startDate, endDate)]
    /\ UNCHANGED <<backend, tz, observed, goalVars, dailyVars,
                   habitVars, completionVars, tradeVars, calls>>

\* A faulty variant: the range filter is applied to the stored reviews.
GetTradingStats_Pruning(startDate, endDate) ==
    /\ Idle
    /\ result' = [op |-> "getTradingStats", startDate |-> startDate,
                  endDate |-> endDate,
                  val |-> IF backend = "mem"
                          THEN MemGetTradingStats(startDate, endDate)
                          ELSE DbGetTradingStats(startDate, endDate)]
    /\ tradeReviews' =
          [id \in {k \in DOMAIN tradeReviews :
                      /\ DateLE(startDate, tradeReviews[k].date)
                      /\ DateLE(tradeReviews[k].date, endDate)}
              |-> tradeReviews[id]]
    /\ UNCHANGED <<backend, tz, observed, goalVars, dailyVars, habitVars,
                   completionVars, currentTradeId, calls>>

GetTradingStats(startDate, endDate) ==
    /\ Idle
    /\ result' = [op |-> "getTradingStats", startDate |-> startDate,
                  endDate |-> endDate,
                  val |-> IF backend = "mem"
                          THEN MemGetTradingStats(startDate, endDate)
                          ELSE DbGetTradingStats(startDate, endDate)]
    /\ UNCHANGED <<backend, tz, observed, goalVars, dailyVars,
                   habitVars, completionVars, tradeVars, calls>>

NextTrades ==
    \/ \E review \in TradeInputs : CreateTradeReview(review)
    \/ \E range \in WeekRanges : GetTradeReviews(range[1], range[2])
    \/ \E range \in WeekRanges : GetTradingStats(range[1], range[2])
    \/ Return

SpecTrades == Init /\ [][NextTrades]_vars

---------------------------------------------------------------------------
(* createOrUpdateHabitCompletion called by several requests at once.       *)
(* MemStorage's method has no await between its read and its write, so it  *)
(* runs as one step.  DatabaseStorage's method awaits getHabitCompletion    *)
(* and then awaits the update or the insert, outside any transaction:      *)
(* other requests run between the two.                                      *)

RaceHabitIds == {1, 2}
RaceDates == {<<2024, 3, 1>>, <<2024, 3, 2>>}
RaceInputs == [habitId : RaceHabitIds, date : RaceDates, completed : BOOLEAN]

\* The inserts that suspended calls are about to make.
PendingInserts ==
    Cardinality({p \in Procs : calls[p].pc = "write" /\ calls[p].existing = {}})

MemUpsert(p, completion) ==
    /\ backend = "mem"
    /\ calls[p].pc = "idle"
    /\ WouldInsert(completion) => currentCompletionId <= MaxCompletions
    /\ memCompletions' = MemUpsertCompletion(completion)[1]
    /\ currentCompletionId' = IF WouldInsert(completion)
                              THEN currentCompletionId + 1
                              ELSE currentCompletionId
    /\ result' = [op |-> "createOrUpdateHabitCompletion", arg |-> completion,
                  val |-> {MemUpsertCompletion(completion)[2]}]
    /\ UNCHANGED <<backend, tz, observed, goalVars, dailyVars,
                   habitVars, dbCompletions, tradeVars, calls>>

\* const existing = await this.getHabitCompletion(habitId, date)
DbUpsertRead(p, completion) ==
    /\ backend = "db"
    /\ calls[p].pc = "idle"
    /\ LET existing == DbGetHabitCompletion(completion.habitId, completion.date)
       IN  /\ existing = {} =>
                currentCompletionId + PendingInserts <= MaxCompletions
           /\ calls' = [calls EXCEPT ![p] = [pc |-> "write",
                                             completion |-> completion,
                                             existing |-> existing]]
    /\ UNCHANGED <<backend, tz, observed, goalVars, dailyVars,
                   habitVars, completionVars, tradeVars, result>>

\* if (existing) { update ... } else { insert ... }, and the return
DbUpsertWrite(p) ==
    /\ backend = "db"
    /\ calls[p].pc = "write"
    /\ LET written == DbWriteCompletion(calls[p].completion, calls[p].existing)
       IN  /\ dbCompletions' = written[1]
           /\ \E row \in FirstRows(written[2]) :
                 result' = [op |-> "createOrUpdateHabitCompletion",
                            arg |-> calls[p].completion, val |-> row]
    /\ currentCompletionId' = IF calls[p].existing = {}
                              THEN currentCompletionId + 1
                              ELSE currentCompletionId
    /\ calls' = [calls EXCEPT ![p] = [pc |-> "idle"]]
    /\ UNCHANGED <<backend, tz, observed, goalVars, dailyVars,
                   habitVars, memCompletions, tradeVars>>

NextRace ==
    \/ \E p \in Procs, completion \in RaceInputs : MemUpsert(p, completion)
    \/ \E p \in Procs, completion \in RaceInputs : DbUpsertRead(p, completion)
    \/ \E p \in Procs : DbUpsertWrite(p)

SpecRace == Init /\ [][NextRace]_vars

---------------------------------------------------------------------------
(* getWeeklyProgress running while other requests are served.  The method  *)
(* awaits getHabits once and then getHabitCompletion once per habit and    *)
(* day; other calls run at each await.  A running call keeps its locals in *)
(* calls[p]: the habits it read, the loop variable d, the habits of the    *)
(* day still to look up, the day's count and the series so far.            *)

WeeklyCallers == {1}
WeeklyRanges == {<<<<2024, 3, 1>>, <<2024, 3, 2>>>>,
                 <<<<2024, 3, 2>>, <<2024, 3, 2>>>>}
\* Completed records on the days the ranges cover.
WeeklyCompletionInputs ==
    {c \in CompletionInputs :
        c.completed /\ \E range \in WeeklyRanges : c.date \in {range[1], range[2]}}

\* A faulty variant: habits.length taken from the table as it is now.
WeeklyTotalHabits_ReRead(call) == Cardinality(ActiveHabits)

\* habits.length / allHabits.length
WeeklyTotalHabits(call) == Cardinality(call.habits)

\* totalHabits > 0 ? Math.round(completedHabits / totalHabits * 100) : 0
WeeklyRate(call, completedHabits) ==
    IF WeeklyTotalHabits(call) > 0
    THEN RoundDiv(100 * completedHabits, WeeklyTotalHabits(call))
    ELSE 0

\* const habits = await this.getHabits(), and the loop header
WeeklyStart(p, startDate, endDate) ==
    /\ calls[p].pc = "idle"
    /\ calls' = [calls EXCEPT ![p] =
                    [pc |-> "loop", startDate |-> startDate,
                     endDate |-> endDate, habits |-> ActiveHabits,
                     d |-> ParseDate(startDate), pending |-> ActiveHabits,
                     completedHabits |-> 0, progress |-> <<>>]]
    /\ UNCHANGED <<backend, tz, observed, goalVars, dailyVars,
                   habitVars, completionVars, tradeVars, result>>

\* One await this.getHabitCompletion(habit.id, dateStr) of the inner loop;
\* after the day's last habit the entry is pushed and d moves on a day.
WeeklyStep(p) ==
    LET call == calls[p]
        dateStr == ToISODate(call.d)
    IN  /\ call.pc = "loop"
        /\ call.d <= ParseDate(call.endDate)
        /\ IF call.pending = {}
           THEN calls' = [calls EXCEPT ![p] =
                    [call EXCEPT !.d = AddDays(call.d, 1),
                                 !.progress = Append(call.progress,
                                     [date |-> dateStr,
                                      completionRate |-> WeeklyRate(call, 0)])]]
           ELSE LET habit == CHOOSE h \in call.pending :
                                \A other \in call.pending : h <= other
                    completion == GetHabitCompletionValue(habit, dateStr)
                    completedHabits == IF IsCompleted(completion)
                                       THEN call.completedHabits + 1
                                       ELSE call.completedHabits
                    rest == call.pending \ {habit}
                IN  calls' = [calls EXCEPT ![p] =
                        IF rest # {}
                        THEN [call EXCEPT !.pending = rest,
                                          !.completedHabits = completedHabits]
                        ELSE [call EXCEPT
                                !.d = AddDays(call.d, 1),
                                !.pending = call.habits,
                                !.completedHabits = 0,
                                !.progress = Append(call.progress,
                                    [date |-> dateStr,
                                     completionRate |->
                                        WeeklyRate(call, completedHabits)])]]
        /\ UNCHANGED <<backend, tz, observed, goalVars, dailyVars,
                       habitVars, completionVars, tradeVars, result>>

\* return result / return progress
WeeklyReturn(p) ==
    /\ Idle
    /\ calls[p].pc = "loop"
    /\ calls[p].d > ParseDate(calls[p].endDate)
    /\ result' = [op |-> "getWeeklyProgress", startDate |-> calls[p].startDate,
                  endDate |-> calls[p].endDate, val |-> calls[p].progress]
    /\ calls' = [calls EXCEPT ![p] = [pc |-> "idle"]]
    /\ UNCHANGED <<backend, tz, observed, goalVars, dailyVars,
                   habitVars, completionVars, tradeVars>>

NextWeekly ==
    \/ \E p \in WeeklyCallers, range \in WeeklyRanges :
          WeeklyStart(p, range[1], range[2])
    \/ \E p \in WeeklyCallers : WeeklyStep(p)
    \/ \E p \in WeeklyCallers : WeeklyReturn(p)
    \/ CreateHabit
    \/ \E id \in HabitIdInputs : DeleteHabit(id)
    \/ \E completion \in WeeklyCompletionInputs :
          CreateOrUpdateHabitCompletion(completion)
    \/ Return

SpecWeekly == Init /\ [][NextWeekly]_vars

---------------------------------------------------------------------------
(* The operations of IStorage that name a record by its id: get, update    *)
(* and delete of habits, trade reviews and goals.                          *)

MaxGoals == 2

\* { ...record, ...updates }  /  update(...).set(updates)
Merge(record, updates) ==
    [k \in DOMAIN record \cup DOMAIN updates |->
        IF k \in DOMAIN updates THEN updates[k] ELSE record[k]]

\* The table without the row of the id.
Without(table, id) == [k \in DOMAIN table \ {id} |-> table[k]]

\* MemStorage.updateHabit / updateTradeReview / updateGoal on its Map:
\* <<Map afterwards, value returned>>
MemUpdate(table, id, updates) ==
    IF id \notin DOMAIN table THEN <<table, {}>>
    ELSE LET updated == Merge(table[id], updates)
         IN  <<[table EXCEPT ![id] = updated], {updated}>>

\* DatabaseStorage.updateHabit / updateTradeReview / updateGoal:
\* update(t).set(updates).where(eq(t.id, id)).returning(), and its first row
DbUpdate(table, id, updates) ==
    LET hit == {k \in DOMAIN table : k = id}
        after == [k \in DOMAIN table |->
                    IF k \in hit THEN Merge(table[k], updates) ELSE table[k]]
    IN  <<after, FirstRow({after[k] : k \in hit})>>

UpdateTable(table, id, updates) ==
    IF backend = "mem" THEN MemUpdate(table, id, updates)
                       ELSE DbUpdate(table, id, updates)

\* MemStorage.getTradeReview / getGoal: this.<map>.get(id)
MemGetRecord(table, id) == IF id \in DOMAIN table THEN {table[id]} ELSE {}

\* DatabaseStorage.getTradeReview / getGoal: the first row of the id, if any
DbGetRecord(table, id) ==
    FirstRow({table[k] : k \in {j \in DOMAIN table : j = id}})

GetRecord(table, id) ==
    IF backend = "mem" THEN MemGetRecord(table, id) ELSE DbGetRecord(table, id)

\* A faulty variant: deleting an id without a record reports success.
MemDeleteTradeReview_AlwaysTrue(id) == <<Without(tradeReviews, id), TRUE>>

\* MemStorage.deleteTradeReview: this.tradeReviews.delete(id)
MemDeleteTradeReview(id) ==
    <<Without(tradeReviews, id), id \in DOMAIN tradeReviews>>

\* DatabaseStorage.deleteTradeReview: delete ... where id, rowCount > 0
DbDeleteTradeReview(id) ==
    LET hit == {k \in DOMAIN tradeReviews : k = id}
    IN  <<[k \in DOMAIN tradeReviews \ hit |-> tradeReviews[k]],
          Cardinality(hit) > 0>>

\* deleteGoal of both backends: the goal is kept, with isActive = false
DeleteGoalTable(id) ==
    [k \in DOMAIN goals |->
        IF k = id THEN [goals[k] EXCEPT !.isActive = FALSE] ELSE goals[k]]

UpdateHabit(id, updates) ==
    /\ Idle
    /\ habits' = UpdateTable(habits, id, updates)[1]
    /\ result' = [op |-> "updateHabit", id |-> id,
                  val |-> UpdateTable(habits, id, updates)[2]]
    /\ UNCHANGED <<backend, tz, observed, goalVars, dailyVars, currentHabitId,
                   completionVars, tradeVars, calls>>

GetTradeReview(id) ==
    /\ Idle
    /\ result' = [op |-> "getTradeReview", id |-> id,
                  val |-> GetRecord(tradeReviews, id)]
    /\ UNCHANGED <<backend, tz, observed, goalVars, dailyVars, habitVars,
                   completionVars, tradeVars, calls>>

UpdateTradeReview(id, review) ==
    /\ Idle
    /\ tradeReviews' = UpdateTable(tradeReviews, id, review)[1]
    /\ result' = [op |-> "updateTradeReview", id |-> id,
                  val |-> UpdateTable(tradeReviews, id, review)[2]]
    /\ UNCHANGED <<backend, tz, observed, goalVars, dailyVars, habitVars,
                   completionVars, currentTradeId, calls>>

DeleteTradeReview(id) ==
    /\ Idle
    /\ LET deleted == IF backend = "mem" THEN MemDeleteTradeReview(id)
                                         ELSE DbDeleteTradeReview(id)
       IN  /\ tradeReviews' = deleted[1]
           /\ result' = [op |-> "deleteTradeReview", id |-> id,
                         val |-> deleted[2]]
    /\ UNCHANGED <<backend, tz, observed, goalVars, dailyVars, habitVars,
                   completionVars, currentTradeId, calls>>

\* MaxGoals bounds the ids createGoal hands out, as MaxHabits does for habits.
CreateGoal ==
    /\ Idle
    /\ currentGoalId <= MaxGoals
    /\ goals' = goals @@ (currentGoalId :>
                              [isActive |-> TRUE, title |-> "created"])
    /\ currentGoalId' = currentGoalId + 1
    /\ result' = [op |-> "createGoal", val |-> currentGoalId]
    /\ UNCHANGED <<backend, tz, observed,
                   dailyVars, habitVars, completionVars,
                   tradeVars, calls>>

GetGoal(id) ==
    /\ Idle
    /\ result' = [op |-> "getGoal", id |-> id, val |-> GetRecord(goals, id)]
    /\ UNCHANGED <<backend, tz, observed, goalVars, dailyVars, habitVars,
                   completionVars, tradeVars, calls>>

UpdateGoal(id, goal) ==
    /\ Idle
    /\ goals' = UpdateTable(goals, id, goal)[1]
    /\ result' = [op |-> "updateGoal", id |-> id,
                  val |-> UpdateTable(goals, id, goal)[2]]
    /\ UNCHANGED <<backend, tz, observed, currentGoalId, dailyVars, habitVars,
                   completionVars, tradeVars, calls>>

DeleteGoal(id) ==
    /\ Idle
    /\ goals' = DeleteGoalTable(id)
    /\ result' = [op |-> "deleteGoal", id |-> id, val |-> id \in DOMAIN goals]
    /\ UNCHANGED <<backend, tz, observed, currentGoalId, dailyVars, habitVars,
                   completionVars, tradeVars, calls>>

\* The ids callers pass: of records that exist, that were deleted, that
\* never existed.
RecordIdInputs == {1, 7}
HabitUpdates == {[name |-> "renamed"]}
TradeUpdates == {[pnl |-> {<<"7">>}]}
GoalUpdates == {[title |-> "renamed"]}
RecordTradeInputs == {t \in TradeInputs : t.emotionalState = {"anxious"}}

NextRecords ==
    \/ CreateHabit
    \/ \E id \in RecordIdInputs : GetHabit(id)
    \/ \E id \in RecordIdInputs, updates \in HabitUpdates : UpdateHabit(id, updates)
    \/ \E id \in RecordIdInputs : DeleteHabit(id)
    \/ \E review \in RecordTradeInputs : CreateTradeReview(review)
    \/ \E id \in RecordIdInputs : GetTradeReview(id)
    \/ \E id \in RecordIdInputs, review \in TradeUpdates :
          UpdateTradeReview(id, review)
    \/ \E id \in RecordIdInputs : DeleteTradeReview(id)
    \/ CreateGoal
    \/ \E id \in RecordIdInputs : GetGoal(id)
    \/ \E id \in RecordIdInputs, goal \in GoalUpdates : UpdateGoal(id, goal)
    \/ \E id \in RecordIdInputs : DeleteGoal(id)
    \/ Return

SpecRecords == Init /\ [][NextRecords]_vars

---------------------------------------------------------------------------
(* The records kept one per date: emotional check-ins, journal entries and *)
(* risk metrics.  Calls run one at a time here, so each backend holds at   *)
(* most one record per date and the table is a function of the date.       *)

DailyDates == {<<2024, 3, 1>>}
CheckInInputs == [date : DailyDates, mood : {"stressed"}]
JournalInputs == [date : DailyDates, content : {"review"}]
RiskInputs == [date : DailyDates, dailyRisk : {{"2"}}]

\* createOrUpdateEmotionalCheckIn: { ...existing, mood } or { ...checkIn, id }
UpsertCheckIn(checkIn) ==
    IF checkIn.date \in DOMAIN emotionalCheckIns
    THEN [emotionalCheckIns EXCEPT ![checkIn.date] =
              Merge(@, [mood |-> checkIn.mood])]
    ELSE emotionalCheckIns @@
            (checkIn.date :> Merge(checkIn, [id |-> currentCheckInId]))

\* createOrUpdateJournalEntry: { ...existing, content } or { ...entry, id }
UpsertJournalEntry(entry) ==
    IF entry.date \in DOMAIN journalEntries
    THEN [journalEntries EXCEPT ![entry.date] =
              Merge(@, [content |-> entry.content])]
    ELSE journalEntries @@
            (entry.date :> Merge(entry, [id |-> currentJournalId]))

\* createOrUpdateRiskMetrics: { ...existing, ...metrics } or a new record
UpsertRiskMetrics(metrics) ==
    IF metrics.date \in DOMAIN riskMetrics
    THEN [riskMetrics EXCEPT ![metrics.date] = Merge(@, metrics)]
    ELSE riskMetrics @@
            (metrics.date :> [date |-> metrics.date,
                              dailyRisk |-> IF Truthy(metrics.dailyRisk)
                                            THEN metrics.dailyRisk ELSE {},
                              id |-> currentRiskId])

CreateOrUpdateEmotionalCheckIn(checkIn) ==
    /\ Idle
    /\ emotionalCheckIns' = UpsertCheckIn(checkIn)
    /\ currentCheckInId' = IF checkIn.date \in DOMAIN emotionalCheckIns
                           THEN currentCheckInId ELSE currentCheckInId + 1
    /\ result' = [op |-> "createOrUpdateEmotionalCheckIn",
                  val |-> UpsertCheckIn(checkIn)[checkIn.date]]
    /\ UNCHANGED <<backend, tz, observed,
                   goalVars, journalEntries, currentJournalId,
                   riskMetrics, currentRiskId, habitVars, completionVars,
                   tradeVars, calls>>

CreateOrUpdateJournalEntry(entry) ==
    /\ Idle
    /\ journalEntries' = UpsertJournalEntry(entry)
    /\ currentJournalId' = IF entry.date \in DOMAIN journalEntries
                           THEN currentJournalId ELSE currentJournalId + 1
    /\ result' = [op |-> "createOrUpdateJournalEntry",
                  val |-> UpsertJournalEntry(entry)[entry.date]]
    /\ UNCHANGED <<backend, tz, observed,
                   goalVars, emotionalCheckIns, currentCheckInId,
                   riskMetrics, currentRiskId, habitVars, completionVars,
                   tradeVars, calls>>

CreateOrUpdateRiskMetrics(metrics) ==
    /\ Idle
    /\ riskMetrics' = UpsertRiskMetrics(metrics)
    /\ currentRiskId' = IF metrics.date \in DOMAIN riskMetrics
                        THEN currentRiskId ELSE currentRiskId + 1
    /\ result' = [op |-> "createOrUpdateRiskMetrics",
                  val |-> UpsertRiskMetrics(metrics)[metrics.date]]
    /\ UNCHANGED <<backend, tz, observed,
                   goalVars, emotionalCheckIns, currentCheckInId,
                   journalEntries, currentJournalId, habitVars, completionVars,
                   tradeVars, calls>>

---------------------------------------------------------------------------
(* The whole store: records of every kind are written, and the four        *)
(* analytics queries are called on what is stored.                         *)

StoreHabitIds == {2}
StoreCompletionInputs ==
    {c \in CompletionInputs : c.completed /\ c.date \in DailyDates}
StoreRanges == {<<<<2024, 2, 29>>, <<2024, 3, 1>>>>,
                <<<<2024, 3, 2>>, <<2024, 3, 2>>>>}
StoreMonths == {<<2024, 3>>}

NextStore ==
    \/ CreateHabit
    \/ \E id \in StoreHabitIds : DeleteHabit(id)
    \/ \E completion \in StoreCompletionInputs :
          CreateOrUpdateHabitCompletion(completion)
    \/ \E review \in RecordTradeInputs : CreateTradeReview(review)
    \/ CreateGoal
    \/ \E id \in RecordIdInputs : DeleteGoal(id)
    \/ \E checkIn \in CheckInInputs : CreateOrUpdateEmotionalCheckIn(checkIn)
    \/ \E entry \in JournalInputs : CreateOrUpdateJournalEntry(entry)
    \/ \E metrics \in RiskInputs : CreateOrUpdateRiskMetrics(metrics)
    \/ \E date \in DailyDates : GetHabitsWithStats(date)
    \/ \E range \in StoreRanges : GetWeeklyProgress(range[1], range[2])
    \/ \E month \in StoreMonths : GetMonthlyStats(month[1], month[2])
    \/ \E range \in StoreRanges : GetTradingStats(range[1], range[2])
    \/ Return

SpecStore == Init /\ [][NextStore]_vars

---------------------------------------------------------------------------
(* A caller of getHabitsWithStats keeps the stats of one habit, with the    *)
(* habit's completion records and the rest of the store as they were, and   *)
(* calls again after other records have changed.                            *)

IsolationDates == {<<2024, 2, 29>>, <<2024, 3, 1>>}
IsolationHabitIds == {2}
IsolationObserved == {1}
IsolationCompletionInputs ==
    {c \in CompletionInputs :
        /\ c.completed
        /\ c.date \in IsolationDates
        /\ c.habitId \in IsolationObserved => c.date = <<2024, 3, 1>>}

\* The completion records of the habit.
HabitRecords(habitId) == {c \in Completions : c.habitId = habitId}

\* What the store holds beside the completion records of the habit.
RestOfStore(habitId) ==
    [habits |-> [id \in DOMAIN habits \ {habitId} |-> habits[id]],
     completions |-> Completions \ HabitRecords(habitId),
     tradeReviews |-> tradeReviews,
     goals |-> goals,
     emotionalCheckIns |-> emotionalCheckIns]

\* The caller keeps the stats returned for one habit.
Observe(habitId) ==
    /\ result.op = "getHabitsWithStats"
    /\ habitId \in DOMAIN result.val
    /\ observed = {}
    /\ observed' = {[habitId |-> habitId, date |-> result.date,
                     stats |-> result.val[habitId],
                     records |-> HabitRecords(habitId),
                     rest |-> RestOfStore(habitId)]}
    /\ UNCHANGED <<backend, tz, goalVars, dailyVars, habitVars,
                   completionVars, tradeVars, calls, result>>

NextIsolation ==
    \/ CreateHabit
    \/ \E id \in IsolationHabitIds : DeleteHabit(id)
    \/ \E completion \in IsolationCompletionInputs :
          CreateOrUpdateHabitCompletion(completion)
    \/ \E review \in RecordTradeInputs : CreateTradeReview(review)
    \/ \E id \in RecordIdInputs : DeleteGoal(id)
    \/ \E checkIn \in CheckInInputs : CreateOrUpdateEmotionalCheckIn(checkIn)
    \/ \E date \in DailyDates : GetHabitsWithStats(date)
    \/ \E habitId \in IsolationObserved : Observe(habitId)
    \/ Return

SpecIsolation == Init /\ [][NextIsolation]_vars

---------------------------------------------------------------------------
(* The two backends side by side.  Both start from the habits of Init and  *)
(* receive the same calls: a completion upsert is applied to MemStorage's  *)
(* Map and to the habit_completions table, which then hold the same        *)
(* records; habits and trade reviews are in the variables both backends    *)
(* read.  Each analytics query is answered by both implementations.        *)

BothCompletionInputs ==
    {c \in CompletionInputs : c.completed /\ c.date \in IsolationDates}
BothTradeInputs ==
    {t \in TradeInputs : t.date = <<2024, 3, 1>> /\ t.emotionalState # {}}
BothRanges == {<<<<2024, 2, 29>>, <<2024, 3, 1>>>>}

BothUpsert(completion) ==
    /\ Idle
    /\ WouldInsert(completion) => currentCompletionId <= MaxCompletions
    /\ memCompletions' = MemUpsertCompletion(completion)[1]
    /\ dbCompletions' =
          DbWriteCompletion(completion,
              DbGetHabitCompletion(completion.habitId, completion.date))[1]
    /\ currentCompletionId' = IF WouldInsert(completion)
                              THEN currentCompletionId + 1
                              ELSE currentCompletionId
    /\ result' = [op |-> "createOrUpdateHabitCompletion", arg |-> completion,
                  val |-> {MemUpsertCompletion(completion)[2]}]
    /\ UNCHANGED <<backend, tz, observed, goalVars, dailyVars, habitVars,
                   tradeVars, calls>>

BothGetHabitsWithStats(date) ==
    /\ Idle
    /\ result' = [op |-> "both.getHabitsWithStats", date |-> date,
                  mem |-> MemGetHabitsWithStats(date),
                  db |-> DbGetHabitsWithStats(date)]
    /\ UNCHANGED <<backend, tz, observed, goalVars, dailyVars, habitVars,
                   completionVars, tradeVars, calls>>

BothGetWeeklyProgress(startDate, endDate) ==
    /\ Idle
    /\ result' = [op |-> "both.getWeeklyProgress", startDate |-> startDate,
                  endDate |-> endDate,
                  mem |-> MemGetWeeklyProgress(startDate, endDate),
                  db |-> DbGetWeeklyProgress(startDate, endDate)]
    /\ UNCHANGED <<backend, tz, observed, goalVars, dailyVars, habitVars,
                   completionVars, tradeVars, calls>>

BothGetMonthlyStats(year, month) ==
    /\ Idle
    /\ result' = [op |-> "both.getMonthlyStats", year |-> year,
                  month |-> month,
                  mem |-> MemGetMonthlyStats(year, month),
                  db |-> DbGetMonthlyStats(year, month)]
    /\ UNCHANGED <<backend, tz, observed, goalVars, dailyVars, habitVars,
                   completionVars, tradeVars, calls>>

BothGetTradingStats(startDate, endDate) ==
    /\ Idle
    /\ result' = [op |-> "both.getTradingStats", startDate |-> startDate,
                  endDate |-> endDate,
                  mem |-> MemGetTradingStats(startDate, endDate),
                  db |-> DbGetTradingStats(startDate, endDate)]
    /\ UNCHANGED <<backend, tz, observed, goalVars, dailyVars, habitVars,
                   completionVars, tradeVars, calls>>

NextBoth ==
    \/ CreateHabit
    \/ \E id \in HabitIdInputs : DeleteHabit(id)
    \/ \E completion \in BothCompletionInputs : BothUpsert(completion)
    \/ \E review \in BothTradeInputs : CreateTradeReview(review)
    \/ \E date \in IsolationDates : BothGetHabitsWithStats(date)
    \/ \E range \in BothRanges : BothGetWeeklyProgress(range[1], range[2])
    \/ \E month \in Months : BothGetMonthlyStats(month[1], month[2])
    \/ \E range \in BothRanges : BothGetTradingStats(range[1], range[2])
    \/ Return

SpecBoth == Init /\ [][NextBoth]_vars

---------------------------------------------------------------------------
(* MemStorage.getMonthlyStats, await by await in the large: the read of    *)
(* the habits, the per-day loop, the nested getWeeklyProgress with its own *)
(* read of the habits and its loop, and the best-streak loop.  Each loop   *)
(* is taken in one step, the schedule in which nothing runs between its    *)
(* awaits; other calls run between the steps.                              *)

MaxCreatedHabits == 1
MonthlyCallers == {1}
MonthlyMonths == {<<2024, 3>>}
\* Completed records of habit 1 on two consecutive days of the month.
MonthlyCompletionInputs ==
    {c \in CompletionInputs :
        /\ c.completed
        /\ c.habitId = 1
        /\ c.date \in {<<2024, 3, 1>>, <<2024, 3, 2>>}}

\* MemStorage.createHabit, beyond the default habits of the constructor.
MemCreateHabit ==
    /\ Idle
    /\ backend = "mem"
    /\ currentHabitId <= NumDefaultHabits + MaxCreatedHabits
    /\ habits' = habits @@ (currentHabitId :>
                                [isActive |-> TRUE, name |-> "created"])
    /\ currentHabitId' = currentHabitId + 1
    /\ result' = [op |-> "createHabit", val |-> currentHabitId]
    /\ UNCHANGED <<backend, tz, observed, goalVars, dailyVars,
                   completionVars, tradeVars, calls>>

\* const habits = await this.getHabits(); startOfMonth, endOfMonth
MonthlyStart(p, year, month) ==
    /\ calls[p].pc = "idle"
    /\ calls' = [calls EXCEPT ![p] =
                    [pc |-> "perDay", year |-> year, month |-> month,
                     habits |-> MemGetHabits,
                     startOfMonth |-> LocalDate(year, month - 1, 1),
                     endOfMonth |-> LocalDate(year, month, 0)]]
    /\ UNCHANGED <<backend, tz, observed, goalVars, dailyVars,
                   habitVars, completionVars, tradeVars, result>>

\* The per-day loop: totalCompletions, totalPossible, perfectDays.
MonthlyPerDay(p) ==
    LET call == calls[p]
    IN  /\ call.pc = "perDay"
        /\ calls' = [calls EXCEPT ![p] =
              [pc |-> "weekly", year |-> call.year, month |-> call.month,
               habits |-> call.habits,
               startOfMonth |-> call.startOfMonth,
               endOfMonth |-> call.endOfMonth,
               totals |-> MemMonthLoop(call.habits, call.startOfMonth,
                                       call.endOfMonth)]]
        /\ UNCHANGED <<backend, tz, observed, goalVars, dailyVars,
                       habitVars, completionVars, tradeVars, result>>

\* The nested getWeeklyProgress enters: const habits = await this.getHabits()
MonthlyWeeklyStart(p) ==
    LET call == calls[p]
    IN  /\ call.pc = "weekly"
        /\ calls' = [calls EXCEPT ![p] =
              [pc |-> "weeklyLoop", year |-> call.year, month |-> call.month,
               habits |-> call.habits,
               startOfMonth |-> call.startOfMonth,
               endOfMonth |-> call.endOfMonth,
               totals |-> call.totals,
               weeklyHabits |-> MemGetHabits]]
        /\ UNCHANGED <<backend, tz, observed, goalVars, dailyVars,
                       habitVars, completionVars, tradeVars, result>>

\* The loop of the nested getWeeklyProgress, and its return.
MonthlyWeeklyLoop(p) ==
    LET call == calls[p]
    IN  /\ call.pc = "weeklyLoop"
        /\ calls' = [calls EXCEPT ![p] =
              [pc |-> "streak", year |-> call.year, month |-> call.month,
               habits |-> call.habits,
               totals |-> call.totals,
               weeklyProgress |->
                  MemWeeklyLoop(call.weeklyHabits,
                                ParseDate(ToISODate(call.startOfMonth)),
                                ParseDate(ToISODate(call.endOfMonth)))]]
        /\ UNCHANGED <<backend, tz, observed, goalVars, dailyVars,
                       habitVars, completionVars, tradeVars, result>>

\* The best-streak loop, completionRate and the returned object.
MonthlyReturn(p) ==
    LET call == calls[p]
    IN  /\ Idle
        /\ call.pc = "streak"
        /\ result' =
              [op |-> "getMonthlyStats", year |-> call.year,
               month |-> call.month,
               val |->
                 [bestStreak |->
                     MemBestStreakLoop(call.weeklyProgress, 1, 0, 0),
                  totalHabits |-> Cardinality(call.habits),
                  completionRate |->
                     IF call.totals.totalPossible > 0
                     THEN RoundDiv(100 * call.totals.totalCompletions,
                                   call.totals.totalPossible)
                     ELSE 0,
                  perfectDays |-> call.totals.perfectDays]]
        /\ calls' = [calls EXCEPT ![p] = [pc |-> "idle"]]
        /\ UNCHANGED <<backend, tz, observed, goalVars, dailyVars,
                       habitVars, completionVars, tradeVars>>

NextMonthly ==
    \/ \E p \in MonthlyCallers, month \in MonthlyMonths :
          MonthlyStart(p, month[1], month[2])
    \/ \E p \in MonthlyCallers : MonthlyPerDay(p)
    \/ \E p \in MonthlyCallers : MonthlyWeeklyStart(p)
    \/ \E p \in MonthlyCallers : MonthlyWeeklyLoop(p)
    \/ \E p \in MonthlyCallers : MonthlyReturn(p)
    \/ MemCreateHabit
    \/ \E id \in HabitIdInputs : DeleteHabit(id)
    \/ \E completion \in MonthlyCompletionInputs :
          CreateOrUpdateHabitCompletion(completion)
    \/ Return

\* The storage is a MemStorage.
InitMonthly == Init /\ backend = "mem"

SpecMonthly == InitMonthly /\ [][NextMonthly]_vars

---------------------------------------------------------------------------
(* What the claims speak of *)

\* The habit has a record with completed = true on the date.
HasCompleted(habitId, date) ==
    \E c \in Completions : c.habitId = habitId /\ c.date = date /\ c.completed

HasRecords(habitId) == \E c \in Completions : c.habitId = habitId

\* The calendar date n days before the date.
DaysBefore(date, n) == DateOfDay(DayNumber(date) - n)

\* No run of completed days is longer than the number of dates with records.
MaxRun == Cardinality(Dates)

\* The habit is completed on each of the k days up to the date and not on the
\* day before them.
RunOfLength(habitId, date, k) ==
    /\ \A i \in 0..(k - 1) : HasCompleted(habitId, DaysBefore(date, i))
    /\ ~HasCompleted(habitId, DaysBefore(date, k))

\* Every active habit was completed on the date (its completion rate is 100).
PerfectDay(date) ==
    /\ ActiveHabits # {}
    /\ \A h \in ActiveHabits : HasCompleted(h, date)

Max(S) == CHOOSE x \in S : \A y \in S : y <= x

\* The length of the longest run of consecutive perfect days of the month.
LongestPerfectRun(year, month) ==
    LET perfect == {d \in 1..DaysInMonth(year, month) :
                        PerfectDay(<<year, month, d>>)}
    IN  Max({0} \cup {n \in 1..Cardinality(perfect) :
                        \E s \in perfect : \A x \in s..(s + n - 1) : x \in perfect})

\* The dates the backend's getMonthlyStats visits for the month.
MonthDates(year, month) ==
    IF backend = "mem"
    THEN LET startOfMonth == LocalDate(year, month - 1, 1)
             endOfMonth == LocalDate(year, month, 0)
         IN  {ToISODate(AddDays(startOfMonth, i)) :
                i \in {j \in 0..31 : AddDays(startOfMonth, j) <= endOfMonth}}
    ELSE {<<year, month, day>> : day \in 1..GetDate(LocalDate(year, month, 0))}

---------------------------------------------------------------------------
(* C1: for every active habit, reference date d and k: if the habit has a  *)
(* completed record on each of the k days d-k+1 .. d and none on day d-k,  *)
(* getHabitsWithStats(d) reports currentStreak = k, in both backends, also *)
(* when the k days cross a month boundary.                                 *)
C1_StreakIsRunLength ==
    result.op = "getHabitsWithStats" =>
        \A h \in ActiveHabits : \A k \in 0..MaxRun :
            RunOfLength(h, result.date, k) =>
                /\ h \in DOMAIN result.val
                /\ result.val[h].currentStreak = k

\* C1 for a process whose time zone is UTC: a habit completed on each of the
\* k days up to the reference date, and not on the day before them, is
\* reported with currentStreak = k, across a month boundary too.
C1_StreakIsRunLengthUTC == tz = 0 => C1_StreakIsRunLength

\* C1, MemStorage alone.
C1_MemStreakIsRunLength == backend = "mem" => C1_StreakIsRunLength

\* C1, DatabaseStorage, for runs that stay inside the month of the date.
C1_DbStreakInsideMonth ==
    (backend = "db" /\ tz = 0 /\ result.op = "getHabitsWithStats") =>
        \A h \in ActiveHabits : \A k \in 0..MaxRun :
            (RunOfLength(h, result.date, k) /\ k < result.date[3]) =>
                result.val[h].currentStreak = k

---------------------------------------------------------------------------
(* C4: getMonthlyStats(year, month) returns bestStreak = the length of the *)
(* longest run of consecutive days of that month whose daily completion    *)
(* rate is 100%, in both backends.                                         *)
C4_BestStreakIsLongestRun ==
    result.op = "getMonthlyStats" =>
        result.val.bestStreak = LongestPerfectRun(result.year, result.month)

\* C4 for a process whose time zone is UTC: bestStreak is the length of the
\* longest run of consecutive perfect days of the month.
C4_BestStreakIsLongestRunUTC == tz = 0 => C4_BestStreakIsLongestRun

\* C4, MemStorage alone, time zone UTC.
C4_MemBestStreakUTC == (backend = "mem" /\ tz = 0) => C4_BestStreakIsLongestRun

---------------------------------------------------------------------------
(* C9: for every active habit without any completion record,               *)
(* getHabitsWithStats(d) reports currentStreak = 0, completionRate = 0,    *)
(* completedToday = false and monthlyCompletions = 0, for every d.         *)
C9_NoRecordsAllZero ==
    result.op = "getHabitsWithStats" =>
        \A h \in ActiveHabits :
            ~HasRecords(h) =>
                /\ h \in DOMAIN result.val
                /\ result.val[h].currentStreak = 0
                /\ result.val[h].completionRate = 0
                /\ result.val[h].completedToday = FALSE
                /\ result.val[h].monthlyCompletions = 0

\* A habit without records is reported next to one that has a completed
\* record on the reference date.
C9_Witness ==
    /\ result.op = "getHabitsWithStats"
    /\ \E h \in ActiveHabits : ~HasRecords(h)
    /\ \E h \in ActiveHabits : HasCompleted(h, result.date)

---------------------------------------------------------------------------
(* C10: getHabitsWithStats(d) reports completedToday = true for a habit    *)
(* iff a record (habit, d) with completed = true exists; otherwise         *)
(* completedToday = false and currentStreak = 0.                           *)
C10_CompletedTodayIff ==
    result.op = "getHabitsWithStats" =>
        \A h \in ActiveHabits :
            /\ h \in DOMAIN result.val
            /\ result.val[h].completedToday = HasCompleted(h, result.date)
            /\ ~HasCompleted(h, result.date) =>
                    result.val[h].currentStreak = 0

\* The habit has a completed = false record on the reference date and a
\* completed = true record on another date.
C10_Witness ==
    /\ result.op = "getHabitsWithStats"
    /\ \E h \in ActiveHabits :
        /\ \E c \in Completions :
                c.habitId = h /\ c.date = result.date /\ ~c.completed
        /\ \E c \in Completions :
                c.habitId = h /\ c.date # result.date /\ c.completed
        /\ result.val[h].completedToday = FALSE

---------------------------------------------------------------------------
(* C6: with createOrUpdateHabitCompletion calls run one at a time, the     *)
(* store holds at most one record per (habitId, date); getHabitCompletion  *)
(* returns the completed flag of the most recent upsert of the pair; a     *)
(* pair never upserted has no record (undefined is returned).              *)

RecordsIn(completions, habitId, date) ==
    {c \in completions : c.habitId = habitId /\ c.date = date}

RecordsOf(habitId, date) == RecordsIn(Completions, habitId, date)

\* At most one record per pair, and getHabitCompletion returns what is stored.
C6_OnePerKey ==
    /\ \A h \in UpsertHabitIds, d \in Dates : Cardinality(RecordsOf(h, d)) <= 1
    /\ \A c \in Completions : c.habitId \in UpsertHabitIds /\ c.date \in Dates
    /\ result.op = "getHabitCompletion" =>
            result.val = RecordsOf(result.habitId, result.date)

\* An upsert leaves exactly one record for its pair, carrying the flag it was
\* given, and leaves the records (or the absence of a record) of every other
\* pair as they were.
C6_UpsertStep ==
    result'.op = "createOrUpdateHabitCompletion" =>
        LET arg == result'.arg
        IN  /\ \E c \in Completions' :
                /\ RecordsIn(Completions', arg.habitId, arg.date) = {c}
                /\ c.completed = arg.completed
                /\ result'.val = {c}
            /\ \A h \in UpsertHabitIds, d \in Dates :
                <<h, d>> # <<arg.habitId, arg.date>> =>
                    RecordsIn(Completions', h, d) = RecordsOf(h, d)

\* Only an upsert changes the completion records.
C6_OnlyUpsertWrites ==
    result'.op # "createOrUpdateHabitCompletion" => Completions' = Completions

\* C6: at most one record per (habitId, date) at any time; every upsert
\* leaves exactly one record for its pair, with the flag it was given, and
\* touches no other pair; getHabitCompletion returns the stored record, or
\* undefined for a pair never upserted.
C6_UpsertIsLastWriter ==
    /\ []C6_OnePerKey
    /\ [][C6_UpsertStep /\ C6_OnlyUpsertWrites]_vars

\* An upsert has just overwritten the flag of an older record, another pair
\* holding a record too.
C6_Witness ==
    /\ result.op = "createOrUpdateHabitCompletion"
    /\ \E c \in result.val : c.id = 1 /\ c.completed = FALSE
    /\ currentCompletionId = 3

---------------------------------------------------------------------------
(* C8: deleteHabit(id) on an existing habit only sets isActive to false:   *)
(* the habit stays in the store and getHabit(id) returns it, but it is     *)
(* absent from getHabits() and from every aggregation.                     *)

InactiveHabits == {id \in DOMAIN habits : ~habits[id].isActive}

\* The number of active habits completed on the date.
ActiveCompleted(date) ==
    Cardinality({h \in DOMAIN habits \ InactiveHabits : HasCompleted(h, date)})

NumActive == Cardinality(DOMAIN habits \ InactiveHabits)

\* The number of (active habit, date) pairs completed, over the dates S.
RECURSIVE SumActiveCompleted(_)
SumActiveCompleted(S) ==
    IF S = {} THEN 0
    ELSE LET x == CHOOSE y \in S : TRUE
         IN  ActiveCompleted(x) + SumActiveCompleted(S \ {x})

C8_InactiveExcluded ==
    /\ result.op = "getHabit" /\ result.id \in DOMAIN habits =>
            result.val = {habits[result.id]}
    /\ result.op = "getHabits" => result.val = DOMAIN habits \ InactiveHabits
    /\ result.op = "getHabitsWithStats" =>
            DOMAIN result.val = DOMAIN habits \ InactiveHabits
    /\ result.op = "getWeeklyProgress" =>
            \A i \in 1..Len(result.val) :
                result.val[i].completionRate =
                    IF NumActive > 0
                    THEN RoundDiv(100 * ActiveCompleted(result.val[i].date),
                                  NumActive)
                    ELSE 0
    /\ result.op = "getMonthlyStats" =>
            LET dates == MonthDates(result.year, result.month)
                possible == NumActive * Cardinality(dates)
            IN  /\ result.val.totalHabits = NumActive
                /\ result.val.perfectDays =
                     Cardinality({d \in dates : NumActive > 0
                                     /\ ActiveCompleted(d) = NumActive})
                /\ result.val.completionRate =
                     IF possible > 0
                     THEN RoundDiv(100 * SumActiveCompleted(dates),
                                   possible)
                     ELSE 0

\* deleteHabit removes no habit and changes only the flag of the one it names.
C8_DeleteStep ==
    /\ DOMAIN habits \subseteq DOMAIN habits'
    /\ result'.op = "deleteHabit" =>
            /\ DOMAIN habits' = DOMAIN habits
            /\ \A id \in DOMAIN habits :
                 habits'[id] = IF id = result'.id
                               THEN [habits[id] EXCEPT !.isActive = FALSE]
                               ELSE habits[id]
            /\ Completions' = Completions

\* C8: a deleted habit stays stored with isActive = false and getHabit
\* returns it; getHabits and every aggregation count the active habits only.
C8_SoftDelete ==
    /\ []C8_InactiveExcluded
    /\ [][C8_DeleteStep]_vars

\* A monthly summary is returned while a deleted habit still holds a
\* completed record on a day of the month and another habit is active.
C8_Witness ==
    /\ result.op = "getMonthlyStats"
    /\ \E h \in InactiveHabits :
          \E d \in MonthDates(result.year, result.month) : HasCompleted(h, d)
    /\ NumActive > 0
    /\ result.val.perfectDays > 0

---------------------------------------------------------------------------
(* Vocabulary of the claims about getTradingStats *)

\* The stored trades whose date lies in the inclusive range.
TradesInRange(startDate, endDate) ==
    {t \in MapValues(tradeReviews) :
        DateLE(startDate, t.date) /\ DateLE(t.date, endDate)}

\* The trade has a PnL that parses as a number.
HasParseablePnl(t) == t.pnl # {} /\ ~IsNaN(Pnl(t))

WithPnl(trades) == {t \in trades : HasParseablePnl(t)}
Winning(trades) == {t \in WithPnl(trades) : Pnl(t).val > 0}
Losing(trades) == {t \in WithPnl(trades) : Pnl(t).val < 0}

RECURSIVE SumOfPnl(_)
SumOfPnl(trades) ==
    IF trades = {} THEN 0
    ELSE LET t == CHOOSE x \in trades : TRUE
         IN  Pnl(t).val + SumOfPnl(trades \ {t})

\* The figures of a result that the PnL values decide.
PnlFigures(stats) ==
    [winRate |-> stats.winRate, totalPnL |-> stats.totalPnL,
     avgWin |-> stats.avgWin, avgLoss |-> stats.avgLoss,
     profitFactor |-> stats.profitFactor]

(* C2: getTradingStats returns profitFactor = sum of the winning PnL over   *)
(* the sum of the absolute losing PnL, rounded to two decimals, when a      *)
(* trade of the range loses; with no losing trade it returns 999 when a     *)
(* trade wins and 0 otherwise; in both backends (100, -50, -50 gives 1).    *)
C2_ProfitFactor ==
    result.op = "getTradingStats" =>
        LET trades == TradesInRange(result.startDate, result.endDate)
            wins == SumOfPnl(Winning(trades))
            losses == -SumOfPnl(Losing(trades))
        IN  result.val.profitFactor =
                IF Losing(trades) # {} THEN RoundDiv(100 * wins, losses)
                ELSE IF Winning(trades) # {} THEN 999 * 100
                ELSE 0

\* C2, MemStorage alone.
C2_MemProfitFactor == backend = "mem" => C2_ProfitFactor

(* C3: getTradingStats returns winRate = round(100 * winning trades /       *)
(* trades with a parseable PnL) over the trades of the range, and 0 when    *)
(* no trade of the range has a parseable PnL; in both backends.             *)
C3_WinRate ==
    result.op = "getTradingStats" =>
        LET trades == TradesInRange(result.startDate, result.endDate)
        IN  result.val.winRate =
                IF WithPnl(trades) # {}
                THEN RoundDiv(100 * Cardinality(Winning(trades)),
                              Cardinality(WithPnl(trades)))
                ELSE 0

\* C3, MemStorage alone.
C3_MemWinRate == backend = "mem" => C3_WinRate

(* C5: a trade of the range whose PnL is absent or does not parse counts in *)
(* totalTrades and changes nothing else: totalPnL, winRate, avgWin, avgLoss *)
(* and profitFactor are what the same query returns without such trades,    *)
(* and no returned number is NaN; in both backends.                         *)
C5_UnparsedPnlContributesNothing ==
    result.op = "getTradingStats" =>
        LET trades == TradesInRange(result.startDate, result.endDate)
        IN  /\ result.val.totalTrades = Cardinality(trades)
            /\ ~IsNaN(result.val.totalPnL)
            /\ PnlFigures(result.val) =
                 PnlFigures(TradingStats(WithPnl(trades)))

\* C5, MemStorage alone.
C5_MemUnparsedPnlContributesNothing ==
    backend = "mem" => C5_UnparsedPnlContributesNothing

---------------------------------------------------------------------------
(* C7: createOrUpdateHabitCompletion calls for one (habitId, date) pair     *)
(* that interleave at their read and write steps leave what some serial     *)
(* order of them leaves: never two records for the pair, and once a call    *)
(* has returned, exactly one record for its pair, carrying the flag of the  *)
(* call that wrote last.                                                    *)
C7_ConcurrentUpsertsSerialize ==
    /\ \A h \in RaceHabitIds, d \in RaceDates :
          Cardinality(RecordsOf(h, d)) <= 1
    /\ result.op = "createOrUpdateHabitCompletion" =>
          /\ Cardinality(RecordsOf(result.arg.habitId, result.arg.date)) = 1
          /\ \A c \in RecordsOf(result.arg.habitId, result.arg.date) :
                c.completed = result.arg.completed

\* C7, MemStorage alone.
C7_MemUpsertsSerialize == backend = "mem" => C7_ConcurrentUpsertsSerialize

---------------------------------------------------------------------------
\* The completed records of the habit dated in the calendar month of the date.
CompletedInMonth(habitId, date) ==
    {c \in Completions :
        /\ c.habitId = habitId
        /\ c.completed
        /\ c.date[1] = date[1]
        /\ c.date[2] = date[2]}

(* C11: for every active habit and reference date d, getHabitsWithStats(d)  *)
(* reports monthlyCompletions = the number of the habit's completed records *)
(* dated in the calendar month of d, totalDaysThisMonth = the number of     *)
(* days of that month and completionRate = round(100 * monthlyCompletions / *)
(* totalDaysThisMonth); so monthlyCompletions <= totalDaysThisMonth and     *)
(* completionRate lies in 0..100.                                           *)
C11_MonthlyCompletions ==
    result.op = "getHabitsWithStats" =>
        \A h \in ActiveHabits :
            LET stats == result.val[h]
                days == DaysInMonth(result.date[1], result.date[2])
            IN  /\ stats.monthlyCompletions =
                      Cardinality(CompletedInMonth(h, result.date))
                /\ stats.totalDaysThisMonth = days
                /\ stats.completionRate =
                      RoundDiv(100 * stats.monthlyCompletions, days)
                /\ stats.monthlyCompletions <= stats.totalDaysThisMonth
                /\ stats.completionRate \in 0..100

\* C11 for a process whose time zone is UTC.
C11_MonthlyCompletionsUTC == tz = 0 => C11_MonthlyCompletions

---------------------------------------------------------------------------
\* The calendar days from startDate to endDate, in order.
DaysOfRange(startDate, endDate) ==
    [i \in 1..(DayNumber(endDate) - DayNumber(startDate) + 1) |->
        DateOfDay(DayNumber(startDate) + i - 1)]

(* C12: for startDate <= endDate, getWeeklyProgress(startDate, endDate)     *)
(* returns one entry per calendar day of the inclusive range: as many       *)
(* entries as days, the first dated startDate, the last endDate, the dates  *)
(* ascending day by day without gap or duplicate.                           *)
C12_OneEntryPerDay ==
    (result.op = "getWeeklyProgress" /\ DateLE(result.startDate, result.endDate)) =>
        LET days == DaysOfRange(result.startDate, result.endDate)
        IN  /\ Len(result.val) = Len(days)
            /\ \A i \in 1..Len(days) : result.val[i].date = days[i]

\* C12 for a process whose time zone has no daylight saving.
C12_OneEntryPerDayFixedOffset == ~ObservesDst => C12_OneEntryPerDay

---------------------------------------------------------------------------
(* C13: every entry of a getWeeklyProgress series has completionRate =      *)
(* round(100 * c / n), n the number of active habits and c the number of    *)
(* active habits with a completed record on the entry's date (n = 3, c = 2  *)
(* gives 67); with no active habit every entry's rate is the number 0.      *)
C13_EntryRate ==
    result.op = "getWeeklyProgress" =>
        \A i \in 1..Len(result.val) :
            LET entry == result.val[i]
                n == NumActive
                c == ActiveCompleted(entry.date)
            IN  /\ entry.completionRate \in Nat
                /\ n = 0 => entry.completionRate = 0
                /\ n > 0 => entry.completionRate = RoundDiv(100 * c, n)
                /\ (n = 3 /\ c = 2) => entry.completionRate = 67

\* A series is returned with an entry for a day on which two of the three
\* active habits are completed, and its rate is 67.
C13_Witness ==
    /\ result.op = "getWeeklyProgress"
    /\ NumActive = 3
    /\ \E i \in 1..Len(result.val) :
          /\ ActiveCompleted(result.val[i].date) = 2
          /\ result.val[i].completionRate = 67

---------------------------------------------------------------------------
\* The rates of a series lie between 0 and 100.
RatesInRange(series) ==
    \A i \in 1..Len(series) : series[i].completionRate \in 0..100

\* The calls of getWeeklyProgress that are running.
RunningWeekly == {p \in WeeklyCallers : calls[p].pc = "loop"}

\* Every rate computed so far, and every rate returned, is within [0, 100].
C14_RatesInRange ==
    /\ \A p \in RunningWeekly :
          /\ RatesInRange(calls[p].progress)
          /\ calls[p].completedHabits <= Cardinality(calls[p].habits)
    /\ result.op = "getWeeklyProgress" => RatesInRange(result.val)

\* A call reads the active habits when it starts and keeps that set while it
\* runs; each entry it adds is a rate over that set, and the series it
\* returns is the one it built.
C14_ReadOnceStep ==
    \A p \in WeeklyCallers :
        /\ (calls[p].pc = "idle" /\ calls'[p].pc = "loop") =>
                calls'[p].habits = ActiveHabits
        /\ (calls[p].pc = "loop" /\ calls'[p].pc = "loop") =>
                /\ calls'[p].habits = calls[p].habits
                /\ calls'[p].progress # calls[p].progress =>
                      LET n == Cardinality(calls[p].habits)
                          entry == calls'[p].progress[Len(calls'[p].progress)]
                      IN  /\ Len(calls'[p].progress) = Len(calls[p].progress) + 1
                          /\ \E c \in 0..n :
                                entry.completionRate =
                                    IF n > 0 THEN RoundDiv(100 * c, n) ELSE 0
        /\ (calls[p].pc = "loop" /\ calls'[p].pc = "idle") =>
                result'.val = calls[p].progress

(* C14: a getWeeklyProgress call reads the set of active habits once, when  *)
(* it starts; createHabit and deleteHabit calls that run between its        *)
(* per-day lookups do not change the set it computes with, so every entry   *)
(* has the same denominator and every completionRate is within [0, 100].    *)
C14_HabitsReadOnce ==
    /\ []C14_RatesInRange
    /\ [][C14_ReadOnceStep]_vars

\* A call has computed its whole series, with a day on which every habit it
\* read is completed, while the table of active habits has changed under it.
C14_Witness ==
    \E p \in RunningWeekly :
        /\ calls[p].d > ParseDate(calls[p].endDate)
        /\ calls[p].habits # ActiveHabits
        /\ Len(calls[p].progress) >= 2
        /\ \E i \in 1..Len(calls[p].progress) :
              calls[p].progress[i].completionRate = 100

---------------------------------------------------------------------------
\* The days of the calendar month.
DaysOfMonth(year, month) ==
    {<<year, month, day>> : day \in 1..DaysInMonth(year, month)}

(* C15: getMonthlyStats(year, month) returns perfectDays = the number of    *)
(* days of that month on which every active habit has a completed record;   *)
(* with no active habit perfectDays is 0.                                   *)
C15_PerfectDays ==
    result.op = "getMonthlyStats" =>
        /\ result.val.perfectDays =
              Cardinality({d \in DaysOfMonth(result.year, result.month) :
                              PerfectDay(d)})
        /\ ActiveHabits = {} => result.val.perfectDays = 0

\* C15 for a process whose time zone is not east of UTC.
C15_PerfectDaysNotEastOfUTC == tz <= 0 => C15_PerfectDays

\* C15 for DatabaseStorage.
C15_DbPerfectDays == backend = "db" => C15_PerfectDays

---------------------------------------------------------------------------
---------------------------------------------------------------------------
(* C17: getMonthlyStats(year, month) returns totalHabits = the number of    *)
(* active habits and completionRate = round(100 * C / (totalHabits *        *)
(* daysInMonth)), C the number of pairs (active habit, day of the month)    *)
(* with a completed record; the rate is 0 when there is no active habit.    *)
C17_MonthlyRate ==
    result.op = "getMonthlyStats" =>
        LET days == DaysOfMonth(result.year, result.month)
            C == SumActiveCompleted(days)
            possible == NumActive * Cardinality(days)
        IN  /\ result.val.totalHabits = NumActive
            /\ NumActive = 0 => result.val.completionRate = 0
            /\ NumActive > 0 =>
                  result.val.completionRate = RoundDiv(100 * C, possible)

\* C17 for a process whose time zone is not east of UTC.
C17_MonthlyRateNotEastOfUTC == tz <= 0 => C17_MonthlyRate

\* C17 for DatabaseStorage.
C17_DbMonthlyRate == backend = "db" => C17_MonthlyRate

---------------------------------------------------------------------------
\* The trades whose PnL is zero, missing or not a number.
ZeroOrUnparsed(trades) ==
    {t \in trades : ~HasParseablePnl(t) \/ Pnl(t).val = 0}

(* C18: getTradingStats(start, end) returns totalTrades = the number of     *)
(* trade reviews dated from start to end, both days included, whether or    *)
(* not they carry a PnL or an emotional state; these trades fall into       *)
(* exactly one of winning, losing and zero-or-missing-or-unparsed PnL, so   *)
(* the three counts add up to totalTrades.                                  *)
C18_TotalTrades ==
    /\ result.op = "getTradeReviews" =>
          result.val = TradesInRange(result.startDate, result.endDate)
    /\ result.op = "getTradingStats" =>
          LET trades == TradesInRange(result.startDate, result.endDate)
          IN  /\ result.val.totalTrades = Cardinality(trades)
              /\ Winning(trades) \cap Losing(trades) = {}
              /\ ZeroOrUnparsed(trades) = trades \ (Winning(trades) \cup Losing(trades))
              /\ Cardinality(Winning(trades)) + Cardinality(Losing(trades))
                    + Cardinality(ZeroOrUnparsed(trades)) = result.val.totalTrades

\* Statistics of a single day are returned: a trade of that day without a
\* number for PnL and without emotional state is counted, beside a winning
\* one, and a trade of another day is stored.
C18_Witness ==
    /\ result.op = "getTradingStats"
    /\ result.startDate = result.endDate
    /\ LET trades == TradesInRange(result.startDate, result.endDate)
       IN  /\ \E t \in trades : ~HasParseablePnl(t) /\ t.emotionalState = {}
           /\ Winning(trades) # {}
           /\ \E t \in MapValues(tradeReviews) : t \notin trades
           /\ result.val.totalTrades = 2

---------------------------------------------------------------------------
\* The PnL values of the trades are 100, -50 and -50 (in hundredths).
IsExampleTrades(trades) ==
    /\ Cardinality(trades) = 3
    /\ WithPnl(trades) = trades
    /\ Cardinality({t \in trades : Pnl(t).val = 10000}) = 1
    /\ Cardinality({t \in trades : Pnl(t).val = -5000}) = 2

\* avgWin is the mean PnL of the winning trades of the range and avgLoss the
\* mean absolute PnL of the losing ones, to two decimals, 0 without any.
C19_AvgWinAvgLoss ==
    result.op = "getTradingStats" =>
        LET trades == TradesInRange(result.startDate, result.endDate)
            wins == Winning(trades)
            losses == Losing(trades)
        IN  /\ result.val.avgWin =
                  IF wins # {} THEN RoundDiv(SumOfPnl(wins), Cardinality(wins))
                  ELSE 0
            /\ result.val.avgLoss =
                  IF losses # {}
                  THEN RoundDiv(-SumOfPnl(losses), Cardinality(losses))
                  ELSE 0

(* C19: getTradingStats returns avgWin = the mean PnL of the trades of the  *)
(* range with PnL > 0, avgLoss = the mean absolute PnL of those with        *)
(* PnL < 0 (0 when there is none), totalPnL = the sum of the parseable PnL  *)
(* values, each to two decimals; for trades with PnL 100, -50, -50 it       *)
(* returns winRate 33, totalPnL 0, avgWin 100, avgLoss 50, profitFactor 1.  *)
C19_Figures ==
    /\ C19_AvgWinAvgLoss
    /\ result.op = "getTradingStats" =>
          LET trades == TradesInRange(result.startDate, result.endDate)
          IN  /\ result.val.totalPnL = Num(SumOfPnl(WithPnl(trades)))
              /\ IsExampleTrades(trades) =>
                    PnlFigures(result.val) =
                        [winRate |-> 33, totalPnL |-> Num(0), avgWin |-> 10000,
                         avgLoss |-> 5000, profitFactor |-> 100]

\* C19, MemStorage alone.
C19_MemFigures == backend = "mem" => C19_Figures

\* Statistics of the trades 100, -50, -50 are returned.
C19_ExampleReached ==
    /\ result.op = "getTradingStats"
    /\ IsExampleTrades(TradesInRange(result.startDate, result.endDate))

---------------------------------------------------------------------------
\* The trades that carry an emotional-state tag.
Tagged(trades) == {t \in trades : \E l \in t.emotionalState : l # ""}

\* The trades tagged with the label.
TaggedWith(trades, label) == {t \in trades : t.emotionalState = {label}}

\* The sum of the numbers of a map.
RECURSIVE SumOfCounts(_)
SumOfCounts(map) ==
    IF DOMAIN map = {} THEN 0
    ELSE LET l == CHOOSE x \in DOMAIN map : TRUE
         IN  map[l].val + SumOfCounts([k \in DOMAIN map \ {l} |-> map[k]])

(* C20: getTradingStats returns emotionalStates as a map from each label    *)
(* carried by a trade of the range to the number of trades of the range     *)
(* tagged with exactly that label; a trade without a tag is under no key    *)
(* (no empty key), so the counts add up to the number of tagged trades of   *)
(* the range, which is at most totalTrades.                                 *)
C20_EmotionalStates ==
    result.op = "getTradingStats" =>
        LET trades == TradesInRange(result.startDate, result.endDate)
            states == result.val.emotionalStates
            labels == UNION {t.emotionalState : t \in Tagged(trades)}
        IN  /\ DOMAIN states = labels
            /\ "" \notin DOMAIN states
            /\ \A l \in labels :
                  states[l] = Num(Cardinality(TaggedWith(trades, l)))
            /\ SumOfCounts(states) = Cardinality(Tagged(trades))
            /\ SumOfCounts(states) <= result.val.totalTrades

\* C20 when no trade of the range is tagged with a name of Object.prototype.
C20_OrdinaryLabels ==
    (result.op = "getTradingStats"
        /\ \A t \in TradesInRange(result.startDate, result.endDate) :
              t.emotionalState \cap ObjectPrototypeKeys = {})
    => C20_EmotionalStates

\* Statistics are returned for a range with untagged trades and two trades
\* under one ordinary label.
C20_OrdinaryReached ==
    /\ result.op = "getTradingStats"
    /\ LET trades == TradesInRange(result.startDate, result.endDate)
       IN  /\ \E t \in trades : t.emotionalState = {}
           /\ \E l \in DOMAIN result.val.emotionalStates :
                 result.val.emotionalStates[l] = Num(2)
           /\ \A t \in trades : t.emotionalState \cap ObjectPrototypeKeys = {}

---------------------------------------------------------------------------
\* Everything the store holds: the records and the id counters.
storeVars == <<habits, currentHabitId, memCompletions, dbCompletions,
               currentCompletionId, tradeReviews, currentTradeId, goalVars,
               dailyVars>>

GetOps == {"getHabit", "getTradeReview", "getGoal"}
UpdateOps == {"updateHabit", "updateTradeReview", "updateGoal"}
DeleteOps == {"deleteHabit", "deleteTradeReview", "deleteGoal"}

\* The table an operation addresses.
TableOf(op) ==
    IF op \in {"getHabit", "updateHabit", "deleteHabit"} THEN habits
    ELSE IF op \in {"getGoal", "updateGoal", "deleteGoal"} THEN goals
    ELSE tradeReviews

\* The step is a call of one of the nine operations with an id that has no
\* record when the call is made.
AbsentIdCall ==
    /\ result.op = "none"
    /\ result'.op \in GetOps \cup UpdateOps \cup DeleteOps
    /\ result'.id \notin DOMAIN TableOf(result'.op)

\* A call with an id that has no record returns undefined (get, update) or
\* false (delete) and leaves the store as it was.
C21_AbsentStep ==
    AbsentIdCall =>
        /\ result'.op \in GetOps \cup UpdateOps => result'.val = {}
        /\ result'.op \in DeleteOps => result'.val = FALSE
        /\ UNCHANGED storeVars

(* C21: an operation addressed to an id that has no record reports absence  *)
(* as a value and changes nothing: getHabit, getTradeReview, getGoal,       *)
(* updateHabit, updateTradeReview and updateGoal return undefined,          *)
(* deleteHabit, deleteTradeReview and deleteGoal return false, and the      *)
(* store is the same before and after the call.                             *)
C21_AbsenceIsAValue == [][C21_AbsentStep]_vars

\* deleteTradeReview has returned false for the id of a trade review that
\* was deleted before, while other records are stored.
C21_Witness ==
    /\ result.op = "deleteTradeReview"
    /\ result.val = FALSE
    /\ result.id < currentTradeId
    /\ tradeReviews # <<>>

---------------------------------------------------------------------------
AnalyticsOps == {"getHabitsWithStats", "getWeeklyProgress", "getMonthlyStats",
                 "getTradingStats"}

\* What the query of the result returns when it is called now.
Requery ==
    IF result.op = "getHabitsWithStats"
    THEN IF backend = "mem" THEN MemGetHabitsWithStats(result.date)
                            ELSE DbGetHabitsWithStats(result.date)
    ELSE IF result.op = "getWeeklyProgress"
    THEN IF backend = "mem"
         THEN MemGetWeeklyProgress(result.startDate, result.endDate)
         ELSE DbGetWeeklyProgress(result.startDate, result.endDate)
    ELSE IF result.op = "getMonthlyStats"
    THEN IF backend = "mem" THEN MemGetMonthlyStats(result.year, result.month)
                            ELSE DbGetMonthlyStats(result.year, result.month)
    ELSE IF backend = "mem"
         THEN MemGetTradingStats(result.startDate, result.endDate)
         ELSE DbGetTradingStats(result.startDate, result.endDate)

\* The same query with the same arguments, called right after an analytics
\* query has returned, returns the same result.
C22_SameResultAgain == result.op \in AnalyticsOps => result.val = Requery

\* A call of an analytics query changes no record and no id counter.
C22_ReadOnlyStep ==
    (result.op = "none" /\ result'.op \in AnalyticsOps) => UNCHANGED storeVars

---------------------------------------------------------------------------
\* The stats kept by the caller that are of the same habit and date as the
\* result, the habit having the same completion records now as then.
Comparable ==
    {o \in observed :
        /\ result.op = "getHabitsWithStats"
        /\ result.date = o.date
        /\ o.habitId \in DOMAIN result.val
        /\ HabitRecords(o.habitId) = o.records}

---------------------------------------------------------------------------
BothOps == {"both.getHabitsWithStats", "both.getWeeklyProgress",
            "both.getMonthlyStats", "both.getTradingStats"}

(* C24: MemStorage and DatabaseStorage are interchangeable for the          *)
(* analytics queries: holding the same habits, completion records and       *)
(* trade reviews after the same calls, they return equal results from       *)
(* getHabitsWithStats, getWeeklyProgress, getMonthlyStats and               *)
(* getTradingStats.                                                         *)
C24_BackendsAgree == result.op \in BothOps => result.mem = result.db

\* The two backends return the same weekly series.
C24_WeeklyProgressAgrees ==
    result.op = "both.getWeeklyProgress" => result.mem = result.db

\* The two backends agree on the fields for which neither claim C1..C5 nor
\* the month window of MemStorage (C11, C15, C17) reports a difference.
C24_AgreeOnTheRest ==
    /\ result.op = "both.getHabitsWithStats" =>
          /\ DOMAIN result.mem = DOMAIN result.db
          /\ \A h \in DOMAIN result.mem :
                result.mem[h].completedToday = result.db[h].completedToday
          /\ tz <= 0 =>
                \A h \in DOMAIN result.mem :
                   [result.mem[h] EXCEPT !.currentStreak = 0] =
                   [result.db[h] EXCEPT !.currentStreak = 0]
    /\ result.op = "both.getMonthlyStats" =>
          /\ result.mem.totalHabits = result.db.totalHabits
          /\ tz <= 0 =>
                [result.mem EXCEPT !.bestStreak = 0] =
                [result.db EXCEPT !.bestStreak = 0]
    /\ result.op = "both.getTradingStats" =>
          /\ result.mem.totalTrades = result.db.totalTrades
          /\ result.mem.avgWin = result.db.avgWin
          /\ result.mem.avgLoss = result.db.avgLoss
          /\ result.mem.emotionalStates = result.db.emotionalStates

---------------------------------------------------------------------------
(* C25: in every result of MemStorage.getMonthlyStats, bestStreak is at     *)
(* most perfectDays, also when createHabit, deleteHabit or                  *)
(* createOrUpdateHabitCompletion calls run between the query's first read   *)
(* of the active habits and its nested getWeeklyProgress call.              *)
C25_BestStreakWithinPerfectDays ==
    (backend = "mem" /\ result.op = "getMonthlyStats") =>
        result.val.bestStreak <= result.val.perfectDays

\* With no call running between the steps of the query, that is, when the
\* habits of the first read are those of the second and the completions
\* have not changed, bestStreak is at most perfectDays.
C25_UndisturbedStep ==
    \A p \in MonthlyCallers :
       (/\ calls[p].pc = "streak"
        /\ calls'[p].pc = "idle"
        /\ calls[p].totals = MemMonthLoop(calls[p].habits,
                                LocalDate(calls[p].year, calls[p].month - 1, 1),
                                LocalDate(calls[p].year, calls[p].month, 0))
        /\ calls[p].weeklyProgress =
              MemGetWeeklyProgress(
                 ToISODate(LocalDate(calls[p].year, calls[p].month - 1, 1)),
                 ToISODate(LocalDate(calls[p].year, calls[p].month, 0)))
        /\ calls[p].habits = MemGetHabits)
       => result'.val.bestStreak <= result'.val.perfectDays
C25_Undisturbed == [][C25_UndisturbedStep]_vars

=============================================================================
